---- MODULE Spec2Model ----
(***************************************************************************)
(* A model of the attachcloudip reverse-tunnel broker: the worker          *)
(* Dispatcher (pkg/worker), the client Registry and TCPManager             *)
(* (pkg/tcpmanager, pkg/registry), and the TunnelService with its          *)
(* response waiters (pkg/service).                                         *)
(***************************************************************************)
EXTENDS Integers, Sequences, FiniteSets, TLC

(***************************************************************************)
(* Bounds of the model.                                                    *)
(***************************************************************************)
\* worker goroutines of the Dispatcher (flag -workers, 10 by default)
maxWorkers == 2
\* capacity of Dispatcher.jobQueue (flag -queue, 100 by default)
queueSize == 2
\* jobs that are ever submitted
MaxJobs == 5

\* clients the Registry ever registers (fresh uuids)
MaxClients == 2
\* paths in one registration request
MaxPaths == 2
\* the clock runs from 0 to MaxTime
MaxTime == 3
\* the timeouts CleanupStaleClients is called with are 1..MaxTimeout
MaxTimeout == 1

\* registration calls of the TunnelService that may overlap
MaxRegs == 2
\* ports NewTunnelService is given
MaxTsPorts == 1
\* callers of handleHTTPRequest that may overlap
MaxCallers == 2
\* distinct request IDs
MaxReqIds == 2
\* responses handed to handleHTTPResponse
MaxDelivers == 1
\* calls of HTTPFrontend.RegisterHandler that may overlap
MaxFront == 2
\* TCP connections the listeners ever accept; connection k becomes job k
MaxConns == 2
\* IncrementTCPConnection is called while a counter is below MaxCount
MaxCount == 2
\* the ports from 10000 on that another process may bind
MaxOsPorts == 1

\* HTTP requests that reach HTTPFrontend.ProxyHandler; request q becomes job q
MaxProxy == 3
\* tunnel connections the server of cmd/server accepts
MaxTunnels == 2
\* heartbeat lines handleClient reads from one tunnel connection, but for
\* the last read, which may bring two
MaxBeats == 2
\* workers of the context-based Pool (NewPool's maxWorkers)
MaxPoolWorkers == 2
\* Jobs given to Pool.Submit
MaxPoolJobs == 3

NoJob == 0
\* the nil channel a receive from the closed, drained workerPool yields
NoWorker == 0

Jobs == 1..MaxJobs

\* Dispatcher.Start with the loop bound off by one (i <= d.maxWorkers)
WorkerIdsOffByOne == 1..(maxWorkers + 1)

\* the workers Dispatcher.Start creates: for i := 0; i < d.maxWorkers; i++
WorkerIds == 1..maxWorkers

VARIABLES
    \* ---- Dispatcher (pkg/worker/dispatcher.go) and Worker ----
    started,          \* Dispatcher.Start has run
    jobQueue,         \* d.jobQueue: buffered channel, as the sequence it holds
    jobQueueClosed,   \* close(d.jobQueue) has happened
    workerPool,       \* d.workerPool: buffered channel of worker job channels
    workerPoolClosed, \* close(workerPool) has happened
    dStop,            \* d.stop is closed
    wStop,            \* w.stop is closed, per worker
    wJobQueueClosed,  \* w.jobQueue is closed, per worker
    wpc,              \* position of each worker goroutine
    wjob,             \* the job a worker is executing
    dpc,              \* position of the dispatch goroutine
    djob,             \* the job dispatch() holds
    dworker,          \* the worker channel dispatch() took from the pool
    spc,              \* position of the caller of Dispatcher.Stop
    sidx,             \* index of the worker Stop is tearing down
    panicked,         \* "none", or the run-time panic that ended the process
    jobState,         \* per job: new, queued, dispatching, running, done, rejected
    \* ---- Registry (package registry, in pkg/tcpmanager/tcp_manager.go) ----
    clients,          \* r.clients: map from client ID to *ClientRegistration
    pathToClientIDs,  \* r.pathToClientIDs: map from path to the list of client IDs
    availableTCPPort, \* r.availableTCPPort
    rmuStuck,         \* a goroutine holds r.mu and waits for r.mu: held for ever
    nextUuid,         \* the uuids handed out so far (uuid.New() is fresh each time)
    now,              \* the clock time.Now() reads
    rerr,             \* the error the latest UpdateHeartbeat, IncrementTCPConnection
                      \* or DecrementTCPConnection call returned to its caller
    \* ---- TunnelService (pkg/service/tunnel_service.go) ----
    tsClients,        \* s.clients: map from client ID to *ClientInfo
    pathClients,      \* s.pathClients: map from normalized path to client IDs
    availablePorts,   \* s.availablePorts
    regpc,            \* position of each Register call
    regId,            \* req.RequestId of each Register call ("" is 0)
    regPath,          \* req.HttpRequest.Path of each Register call
    \* ---- response waiters of the TunnelService ----
    responseWaiters,  \* s.responseWaiters: map from request ID to the waiter,
                      \* named by the handleHTTPRequest call that made it
    waiterChan,       \* waiter.Response of each call's waiter (capacity 1)
    cpc,              \* position of each handleHTTPRequest call
    creq,             \* its requestID
    cclient,          \* its clientID
    cresult,          \* what it returned
    creceived,        \* the response it took from waiter.Response (0: none)
    hpc,              \* position of each handleHTTPResponse call
    hreq,             \* its req.RequestId ("" is 0)
    htype,            \* its req.Type
    hwaiter,          \* the waiter it loaded
    hresult,          \* what it returned
    \* ---- TCPManager (pkg/tcpmanager/tcp_manager.go) ----
    listeners,        \* m.listeners: the ports that have a listener
    portInventory,    \* m.portInventory
    mmuStuck,         \* a goroutine holds m.mu and waits for m.mu: held for ever
    osBusy,           \* the ports another process has bound
    allocPort,        \* what the latest GetAvailablePort call returned
    acceptLoops,      \* per port, the acceptConnections goroutines started for it
    lret,             \* the port of the listener the latest StartOrReuseListener
                      \* call returned (0: none)
    lbound,           \* that call bound the port with net.Listen
    \* ---- the context-based Pool (pkg/worker/pool.go) and its Worker ----
    poolWorkerPool,   \* p.workerPool: buffered channel of worker job channels
    poolWpc,          \* position of each worker goroutine of the Pool
    poolWjob,         \* the Job a worker of the Pool executes
    poolDpc,          \* position of the Pool's dispatch goroutine
    poolDjob,         \* the Job dispatch holds
    poolDworker,      \* the worker whose channel dispatch took from the pool
    poolJobState,     \* per Job given to Pool.Submit: new, refused, dispatching,
                      \* running, done, dropped
    poolStop,         \* Pool.Stop: 0 not called, k sending to worker k's quit
    poolCtxDone,      \* the context of Pool.Start is cancelled
    \* ---- a caller of Registry.ListClients (StatusHandler) ----
    lpc,              \* its position: idle, iterating, done
    lsnap,            \* r.clients as it was when ListClients returned
    lread,            \* the listing as the caller has read it
    lrace,            \* r.clients was written while the caller iterated over it
                      \* (0: an error; -1: no call yet)
    \* ---- HTTPFrontend.RegisterHandler calls ----
    fpc,              \* position of each call
    fid,              \* req.ClientID
    fproto,           \* the ClientType of req.Protocol
    fport,            \* port
    fkey,             \* clientReg, as the key RegisterClient stored it under
    \* ---- accepted TCP connections and their handleConnection goroutines ----
    kpc,              \* position of handleConnection
    kport,            \* the port the connection was accepted on
    kclient,          \* selectedClient, as its key in r.clients (0: nil)
    connClosed,       \* conn.Close() has been called
    \* ---- HTTPFrontend.ProxyHandler calls; request q is handed in as job q ----
    ppc,              \* position of each call
    pstatus,          \* the status line the HTTP client got ("none": not yet)
    \* ---- the tunnel server of cmd/server (server.go): TCPManager ----
    sclients,         \* m.clients: map from client ID to clientInfo
    tpc,              \* position of handleClient for each tunnel connection
    tfirst,           \* initialMsg, the first message of the connection
    tid,              \* clientID
    twritten,         \* what the server has written to the connection
    tbeats,           \* the heartbeat lines the server has read from it
    tclosed,          \* the connection has been closed by the server
    \* ---- main (cmd/server/main.go of the broker) ----
    mainpc            \* position of main

dvars == <<started, jobQueue, jobQueueClosed, workerPool, workerPoolClosed,
           dStop, wStop, wJobQueueClosed, wpc, wjob, dpc, djob, dworker,
           spc, sidx, jobState>>

rvars == <<clients, pathToClientIDs, availableTCPPort, rmuStuck, nextUuid, now,
           rerr>>

tvars == <<tsClients, pathClients, availablePorts, regpc, regId, regPath>>

cvars == <<responseWaiters, waiterChan, cpc, creq, cclient, cresult, creceived,
           hpc, hreq, htype, hwaiter, hresult>>

mvars == <<listeners, portInventory, mmuStuck, osBusy, allocPort, acceptLoops,
          lret, lbound>>

fvars == <<fpc, fid, fproto, fport, fkey>>

kvars == <<kpc, kport, kclient, connClosed>>

pvars == <<ppc, pstatus>>

svars == <<sclients, tpc, tfirst, tid, twritten, tbeats, tclosed>>

listvars == <<lpc, lsnap, lread, lrace>>

poolvars == <<poolWorkerPool, poolWpc, poolWjob, poolDpc, poolDjob, poolDworker,
              poolJobState, poolStop, poolCtxDone>>

vars == <<dvars, panicked, rvars, tvars, cvars, mvars, fvars, kvars, pvars,
          svars, mainpc, poolvars, listvars>>

(***************************************************************************)
(* NewDispatcher and NewWorker: every channel open and empty, no goroutine *)
(* started.                                                                *)
(***************************************************************************)
InitDispatcher ==
    /\ started = FALSE
    /\ jobQueue = <<>>
    /\ jobQueueClosed = FALSE
    /\ workerPool = <<>>
    /\ workerPoolClosed = FALSE
    /\ dStop = FALSE
    /\ wStop = [w \in WorkerIds |-> FALSE]
    /\ wJobQueueClosed = [w \in WorkerIds |-> FALSE]
    /\ wpc = [w \in WorkerIds |-> "absent"]
    /\ wjob = [w \in WorkerIds |-> NoJob]
    /\ dpc = "absent"
    /\ djob = NoJob
    /\ dworker = NoWorker
    /\ spc = "idle"
    /\ sidx = 0
    /\ panicked = "none"
    /\ jobState = [j \in Jobs |-> "new"]

\* a panic in any goroutine ends the process: nothing runs afterwards
Running == panicked = "none"

\* Dispatcher.Start: creates and starts the workers, then starts dispatch()
Start ==
    /\ Running
    /\ ~started
    /\ started' = TRUE
    /\ wpc' = [w \in WorkerIds |-> "register"]
    /\ dpc' = "select"
    /\ UNCHANGED <<jobQueue, jobQueueClosed, workerPool, workerPoolClosed,
                   dStop, wStop, wJobQueueClosed, wjob, djob, dworker,
                   spc, sidx, panicked, jobState>>

\* Dispatcher.Submit accepting one job more than the queue's capacity
SubmitOffByOne(j) ==
    /\ Running
    /\ jobState[j] = "new"
    /\ IF jobQueueClosed
       THEN /\ panicked' = "send on closed channel"
            /\ UNCHANGED <<jobQueue, jobState>>
       ELSE IF Len(jobQueue) <= queueSize
       THEN /\ jobQueue' = Append(jobQueue, j)
            /\ jobState' = [jobState EXCEPT ![j] = "queued"]
            /\ UNCHANGED panicked
       ELSE /\ jobState' = [jobState EXCEPT ![j] = "rejected"]
            /\ UNCHANGED <<jobQueue, panicked>>
    /\ UNCHANGED <<started, jobQueueClosed, workerPool, workerPoolClosed,
                   dStop, wStop, wJobQueueClosed, wpc, wjob, dpc, djob,
                   dworker, spc, sidx>>

\* Dispatcher.Submit: select { case d.jobQueue <- job: nil; default: error }.
\* A send on a closed channel panics, also inside a select with a default.
Submit(j) ==
    /\ Running
    /\ jobState[j] = "new"
    /\ IF jobQueueClosed
       THEN /\ panicked' = "send on closed channel"
            /\ UNCHANGED <<jobQueue, jobState>>
       ELSE IF Len(jobQueue) < queueSize
       THEN /\ jobQueue' = Append(jobQueue, j)
            /\ jobState' = [jobState EXCEPT ![j] = "queued"]
            /\ UNCHANGED panicked
       ELSE /\ jobState' = [jobState EXCEPT ![j] = "rejected"]
            /\ UNCHANGED <<jobQueue, panicked>>
    /\ UNCHANGED <<started, jobQueueClosed, workerPool, workerPoolClosed,
                   dStop, wStop, wJobQueueClosed, wpc, wjob, dpc, djob,
                   dworker, spc, sidx>>

\* a receive from d.jobQueue that leaves the Job in the queue
DispatchTakeJobKeep ==
    /\ Running
    /\ dpc = "select"
    /\ jobQueue # <<>>
    /\ djob' = Head(jobQueue)
    /\ jobState' = [jobState EXCEPT ![Head(jobQueue)] = "dispatching"]
    /\ dpc' = "getWorker"
    /\ UNCHANGED <<started, jobQueue, jobQueueClosed, workerPool, workerPoolClosed,
                   dStop, wStop, wJobQueueClosed, wpc, wjob, dworker,
                   spc, sidx, panicked>>

\* dispatch(), case job := <-d.jobQueue
DispatchTakeJob ==
    /\ Running
    /\ dpc = "select"
    /\ jobQueue # <<>>
    /\ djob' = Head(jobQueue)
    /\ jobQueue' = Tail(jobQueue)
    /\ jobState' = [jobState EXCEPT ![Head(jobQueue)] = "dispatching"]
    /\ dpc' = "getWorker"
    /\ UNCHANGED <<started, jobQueueClosed, workerPool, workerPoolClosed,
                   dStop, wStop, wJobQueueClosed, wpc, wjob, dworker,
                   spc, sidx, panicked>>

\* dispatch(), case <-d.stop: return (and the deferred d.wg.Done())
DispatchStop ==
    /\ Running
    /\ dpc = "select"
    /\ dStop
    /\ dpc' = "exited"
    /\ UNCHANGED <<started, jobQueue, jobQueueClosed, workerPool,
                   workerPoolClosed, dStop, wStop, wJobQueueClosed, wpc, wjob,
                   djob, dworker, spc, sidx, panicked, jobState>>

\* dispatch(), workerJobQueue := <-d.workerPool. A closed, drained channel
\* yields the zero value, the nil channel, at once.
DispatchGetWorker ==
    /\ Running
    /\ dpc = "getWorker"
    /\ IF workerPool # <<>>
       THEN /\ dworker' = Head(workerPool)
            /\ workerPool' = Tail(workerPool)
       ELSE /\ workerPoolClosed
            /\ dworker' = NoWorker
            /\ UNCHANGED workerPool
    /\ dpc' = "send"
    /\ UNCHANGED <<started, jobQueue, jobQueueClosed, workerPoolClosed,
                   dStop, wStop, wJobQueueClosed, wpc, wjob, djob,
                   spc, sidx, panicked, jobState>>

\* dispatch(), workerJobQueue <- job, met by the worker's case job := <-w.jobQueue.
\* The channel is unbuffered: the send waits for the worker, waits for ever on
\* the nil channel, and panics when the channel is closed.
DispatchSend ==
    /\ Running
    /\ dpc = "send"
    /\ dworker # NoWorker
    /\ IF wJobQueueClosed[dworker]
       THEN /\ panicked' = "send on closed channel"
            /\ UNCHANGED <<wpc, wjob, dpc, djob, dworker, jobState>>
       ELSE /\ wpc[dworker] = "select"
            /\ wpc' = [wpc EXCEPT ![dworker] = "execute"]
            /\ wjob' = [wjob EXCEPT ![dworker] = djob]
            /\ jobState' = [jobState EXCEPT ![djob] = "running"]
            /\ dpc' = "select"
            /\ djob' = NoJob
            /\ dworker' = NoWorker
            /\ UNCHANGED panicked
    /\ UNCHANGED <<started, jobQueue, jobQueueClosed, workerPool,
                   workerPoolClosed, dStop, wStop, wJobQueueClosed, spc, sidx>>

\* Worker.Start's goroutine, w.workerPool <- w.jobQueue
WorkerRegister(w) ==
    /\ Running
    /\ wpc[w] = "register"
    /\ IF workerPoolClosed
       THEN /\ panicked' = "send on closed channel"
            /\ UNCHANGED <<workerPool, wpc>>
       ELSE /\ Len(workerPool) < maxWorkers
            /\ workerPool' = Append(workerPool, w)
            /\ wpc' = [wpc EXCEPT ![w] = "select"]
            /\ UNCHANGED panicked
    /\ UNCHANGED <<started, jobQueue, jobQueueClosed, workerPoolClosed,
                   dStop, wStop, wJobQueueClosed, wjob, dpc, djob, dworker,
                   spc, sidx, jobState>>

\* Worker.Start's goroutine, case <-w.stop: return (and the deferred w.wg.Done())
WorkerStop(w) ==
    /\ Running
    /\ wpc[w] = "select"
    /\ wStop[w]
    /\ wpc' = [wpc EXCEPT ![w] = "exited"]
    /\ UNCHANGED <<started, jobQueue, jobQueueClosed, workerPool,
                   workerPoolClosed, dStop, wStop, wJobQueueClosed, wjob, dpc,
                   djob, dworker, spc, sidx, panicked, jobState>>

\* job.Execute() returns (with or without an error): the worker loops
WorkerFinish(w) ==
    /\ Running
    /\ wpc[w] = "execute"
    /\ jobState' = [jobState EXCEPT ![wjob[w]] = "done"]
    /\ wjob' = [wjob EXCEPT ![w] = NoJob]
    /\ wpc' = [wpc EXCEPT ![w] = "register"]
    /\ UNCHANGED <<started, jobQueue, jobQueueClosed, workerPool,
                   workerPoolClosed, dStop, wStop, wJobQueueClosed, dpc, djob,
                   dworker, spc, sidx, panicked>>

\* after Worker.Stop of worker sidx: the next worker, or d.wg.Wait()
AfterWorkerStop == IF sidx < maxWorkers THEN "wCloseStop" ELSE "wgWait"

\* Dispatcher.Stop, one statement at a time; Worker.Stop is inlined.
\* A close of a closed channel panics.
StopStep ==
    /\ Running
    /\ started
    /\ spc \notin {"returned"}
    /\ CASE spc = "idle" ->            \* close(d.stop)
              /\ dStop' = TRUE
              /\ sidx' = IF maxWorkers >= 1 THEN 1 ELSE 0
              /\ spc' = IF maxWorkers >= 1 THEN "wCloseStop" ELSE "wgWait"
              /\ UNCHANGED <<jobQueueClosed, workerPoolClosed, wStop,
                             wJobQueueClosed, panicked>>
         [] spc = "wCloseStop" ->      \* Worker.Stop: close(w.stop)
              /\ wStop' = [wStop EXCEPT ![sidx] = TRUE]
              /\ spc' = "wWait"
              /\ UNCHANGED <<jobQueueClosed, workerPoolClosed, dStop,
                             wJobQueueClosed, sidx, panicked>>
         [] spc = "wWait" ->           \* Worker.Stop: w.wg.Wait()
              /\ wpc[sidx] = "exited"
              /\ spc' = "wCloseJobQueue"
              /\ UNCHANGED <<jobQueueClosed, workerPoolClosed, dStop, wStop,
                             wJobQueueClosed, sidx, panicked>>
         [] spc = "wCloseJobQueue" ->  \* Worker.Stop: close(w.jobQueue)
              /\ wJobQueueClosed' = [wJobQueueClosed EXCEPT ![sidx] = TRUE]
              /\ spc' = "wClosePool"
              /\ UNCHANGED <<jobQueueClosed, workerPoolClosed, dStop, wStop,
                             sidx, panicked>>
         [] spc = "wClosePool" ->      \* Worker.Stop: close(w.workerPool)
              IF workerPoolClosed
              THEN /\ panicked' = "close of closed channel"
                   /\ UNCHANGED <<jobQueueClosed, workerPoolClosed, dStop,
                                  wStop, wJobQueueClosed, sidx, spc>>
              ELSE /\ workerPoolClosed' = TRUE
                   /\ spc' = AfterWorkerStop
                   /\ sidx' = IF sidx < maxWorkers THEN sidx + 1 ELSE sidx
                   /\ UNCHANGED <<jobQueueClosed, dStop, wStop,
                                  wJobQueueClosed, panicked>>
         [] spc = "wgWait" ->          \* d.wg.Wait()
              /\ dpc = "exited"
              /\ spc' = "closeJobQueue"
              /\ UNCHANGED <<jobQueueClosed, workerPoolClosed, dStop, wStop,
                             wJobQueueClosed, sidx, panicked>>
         [] spc = "closeJobQueue" ->   \* close(d.jobQueue)
              /\ jobQueueClosed' = TRUE
              /\ spc' = "closeWorkerPool"
              /\ UNCHANGED <<workerPoolClosed, dStop, wStop, wJobQueueClosed,
                             sidx, panicked>>
         [] spc = "closeWorkerPool" -> \* close(d.workerPool)
              IF workerPoolClosed
              THEN /\ panicked' = "close of closed channel"
                   /\ UNCHANGED <<jobQueueClosed, workerPoolClosed, dStop,
                                  wStop, wJobQueueClosed, sidx, spc>>
              ELSE /\ workerPoolClosed' = TRUE
                   /\ spc' = "returned"
                   /\ UNCHANGED <<jobQueueClosed, dStop, wStop,
                                  wJobQueueClosed, sidx, panicked>>
    /\ UNCHANGED <<started, jobQueue, workerPool, wpc, wjob, dpc, djob,
                   dworker, jobState>>

(***************************************************************************)
(* Paths. A path is the sequence of its characters, so that normalizePath  *)
(* is computed as the code computes it.                                    *)
(***************************************************************************)
\* the paths registration requests name: "/a", "/a/" and "b"
PathInputs == {<<"/", "a">>, <<"/", "a", "/">>, <<"b">>}

\* the path lists of a registration request (json "paths"), the empty one too
PathLists == UNION {[1..n -> PathInputs] : n \in 0..MaxPaths}

RECURSIVE TrimRightSlash(_)
\* strings.TrimRight(p, "/")
TrimRightSlash(p) ==
    IF p # <<>> /\ p[Len(p)] = "/"
    THEN TrimRightSlash(SubSeq(p, 1, Len(p) - 1))
    ELSE p

\* service.normalizePath: strip trailing slashes, force a leading slash
normalizePath(p) ==
    LET t == TrimRightSlash(p)
    IN IF t # <<>> /\ t[1] = "/" THEN t ELSE <<"/">> \o t

(***************************************************************************)
(* The Registry.                                                           *)
(***************************************************************************)
ClientTypeHTTP == 0
ClientTypeTCP == 1
ClientTypes == {ClientTypeHTTP, ClientTypeTCP}

\* the IDs uuid.New() hands out
Uuids == 1..MaxClients

\* the port NewRegistry is given (cfg.Server.Ports.Registration)
RegistrationPort == 9997

\* NewRegistry
InitRegistry ==
    /\ clients = <<>>
    /\ pathToClientIDs = <<>>
    /\ availableTCPPort = RegistrationPort
    /\ rmuStuck = FALSE
    /\ nextUuid = 1
    /\ now = 0
    /\ rerr = "none"

\* s with its first occurrence of x removed: append(s[:i], s[i+1:]...); break
RemoveFirst(s, x) ==
    IF \E i \in 1..Len(s) : s[i] = x
    THEN LET i == CHOOSE k \in 1..Len(s) :
                      s[k] = x /\ \A m \in 1..(k - 1) : s[m] # x
         IN SubSeq(s, 1, i - 1) \o SubSeq(s, i + 1, Len(s))
    ELSE s

\* the map m without key k: delete(m, k)
MapDelete(m, k) == [x \in DOMAIN m \ {k} |-> m[x]]

\* m[k] = v, for a key that may be new
MapPut(m, k, v) == [x \in DOMAIN m \cup {k} |-> IF x = k THEN v ELSE m[x]]

\* r.pathToClientIDs[path] = append(r.pathToClientIDs[path], clientID)
IndexAppend(idx, path, id) ==
    MapPut(idx, path, IF path \in DOMAIN idx THEN Append(idx[path], id) ELSE <<id>>)

RECURSIVE IndexPaths(_, _, _)
\* RegisterClient's loop: for _, path := range paths { append }
IndexPaths(idx, paths, id) ==
    IF paths = <<>> THEN idx
    ELSE IndexPaths(IndexAppend(idx, Head(paths), id), Tail(paths), id)

\* the path index after RegisterClient: the paths are indexed as given
RegisterIndex(idx, paths, id) == IndexPaths(idx, paths, id)

\* Registry.RegisterClient. For a TCP client it calls AllocateTCPPort, which
\* locks r.mu, while it holds r.mu: sync.RWMutex is not reentrant, so the
\* call never returns and r.mu is never released.
RegisterClient(paths, clientType) ==
    /\ Running
    /\ ~rmuStuck
    /\ nextUuid <= MaxClients
    /\ nextUuid' = nextUuid + 1
    /\ IF clientType = ClientTypeTCP
       THEN /\ rmuStuck' = TRUE
            /\ UNCHANGED <<clients, pathToClientIDs>>
       ELSE /\ clients' = MapPut(clients, nextUuid,
                                 [ID |-> nextUuid, Type |-> clientType,
                                  Paths |-> paths, LastHeartbeat |-> now,
                                  TCPPort |-> 0, ActiveTCPConnections |-> 0,
                                  Status |-> "active"])
            /\ pathToClientIDs' = RegisterIndex(pathToClientIDs, paths, nextUuid)
            /\ UNCHANGED rmuStuck
    /\ UNCHANGED <<availableTCPPort, now, rerr>>

\* RemoveClient's loop over the whole index: the first occurrence of the ID
\* goes from each list; an emptied list stays in the map
RemoveFromIndex(idx, clientID) ==
    [p \in DOMAIN idx |-> RemoveFirst(idx[p], clientID)]

\* Registry.RemoveClient
RemoveClient(clientID) ==
    /\ Running
    /\ ~rmuStuck
    /\ clients' = MapDelete(clients, clientID)
    /\ pathToClientIDs' = RemoveFromIndex(pathToClientIDs, clientID)
    /\ UNCHANGED <<availableTCPPort, rmuStuck, nextUuid, now, rerr>>

\* CleanupStaleClients, for one path of a stale client: the first occurrence
\* of the ID goes from the path's list, and the path goes when its list is empty
CleanupPath(idx, path, clientID) ==
    LET idx1 == IF path \in DOMAIN idx
                THEN [idx EXCEPT ![path] = RemoveFirst(@, clientID)]
                ELSE idx
    IN IF path \in DOMAIN idx1 /\ Len(idx1[path]) = 0
       THEN MapDelete(idx1, path)
       ELSE idx1

RECURSIVE CleanupPaths(_, _, _)
\* CleanupStaleClients: for _, path := range client.Paths
CleanupPaths(idx, paths, clientID) ==
    IF paths = <<>> THEN idx
    ELSE CleanupPaths(CleanupPath(idx, Head(paths), clientID), Tail(paths), clientID)

\* the clients CleanupStaleClients(timeout) finds stale
StaleClientIDs(timeout) ==
    {id \in DOMAIN clients : now - clients[id].LastHeartbeat > timeout}

RECURSIVE CleanupClients(_, _)
\* CleanupStaleClients: the path index after the loop over the stale clients
CleanupClients(idx, stale) ==
    IF stale = {} THEN idx
    ELSE LET id == CHOOSE x \in stale : TRUE
         IN CleanupClients(CleanupPaths(idx, clients[id].Paths, id), stale \ {id})

\* Registry.CleanupStaleClients
CleanupStaleClients(timeout) ==
    /\ Running
    /\ ~rmuStuck
    /\ clients' = [id \in DOMAIN clients \ StaleClientIDs(timeout) |-> clients[id]]
    /\ pathToClientIDs' = CleanupClients(pathToClientIDs, StaleClientIDs(timeout))
    /\ UNCHANGED <<availableTCPPort, rmuStuck, nextUuid, now, rerr>>

\* Registry.FindClientForPath returns its error: if !exists ||
\* len(clientIDs) == 0
FindClientForPathErr(path) ==
    path \notin DOMAIN pathToClientIDs \/ Len(pathToClientIDs[path]) = 0

\* Registry.FindClientForPath: the list stored under the path exactly as it
\* is given, without the IDs that have no record; <<>> stands for its error
FindClientForPath(path) ==
    IF path \notin DOMAIN pathToClientIDs THEN <<>>
    ELSE SelectSeq(pathToClientIDs[path], LAMBDA id : id \in DOMAIN clients)

\* the error of a lookup that takes every client ID for a known one
ClientAlwaysFound(cl, clientID) == "nil"

\* client, exists := r.clients[clientID]; if !exists { return
\* fmt.Errorf("client not found: %s", clientID) }, and nil at the end
ClientNotFound(cl, clientID) ==
    IF clientID \in DOMAIN cl THEN "nil" ELSE "client not found"

\* Registry.UpdateHeartbeat; an unknown ID is an error and changes nothing
UpdateHeartbeat(clientID) ==
    /\ Running
    /\ ~rmuStuck
    /\ clients' = IF clientID \in DOMAIN clients
                  THEN [clients EXCEPT ![clientID].LastHeartbeat = now,
                                       ![clientID].Status = "active"]
                  ELSE clients
    /\ rerr' = ClientNotFound(clients, clientID)
    /\ UNCHANGED <<pathToClientIDs, availableTCPPort, rmuStuck, nextUuid, now>>

\* the interval main gives StartHeartbeatMonitor (30 * time.Second), as
\* one unit of the clock
MonitorInterval == 1

\* the monitor's test with >= in place of >
MonitorMarkInclusive(cl) ==
    [id \in DOMAIN cl |->
        IF now - cl[id].LastHeartbeat >= MonitorInterval * 2
        THEN [cl[id] EXCEPT !.Status = "inactive"]
        ELSE cl[id]]

\* the monitor's loop over r.clients: if now.Sub(lastBeat) > interval*2
\* { client.Status = "inactive" }
MonitorMark(cl) ==
    [id \in DOMAIN cl |->
        IF now - cl[id].LastHeartbeat > MonitorInterval * 2
        THEN [cl[id] EXCEPT !.Status = "inactive"]
        ELSE cl[id]]

\* one tick of the goroutine Registry.StartHeartbeatMonitor starts, under
\* r.mu: it marks and removes nothing
StartHeartbeatMonitor ==
    /\ Running
    /\ ~rmuStuck
    /\ clients' = MonitorMark(clients)
    /\ UNCHANGED <<pathToClientIDs, availableTCPPort, rmuStuck, nextUuid, now, rerr>>

\* time passes
Tick ==
    /\ Running
    /\ now < MaxTime
    /\ now' = now + 1
    /\ UNCHANGED <<clients, pathToClientIDs, availableTCPPort, rmuStuck, nextUuid,
                   rerr>>

(***************************************************************************)
(* The TunnelService: registration.                                        *)
(***************************************************************************)
RegCalls == 1..MaxRegs

\* the ports main hands to NewTunnelService, from the registration port on
TsPorts == [i \in 1..MaxTsPorts |-> RegistrationPort + i - 1]

\* NewTunnelService
InitTunnelService ==
    /\ tsClients = <<>>
    /\ pathClients = <<>>
    /\ availablePorts = TsPorts
    /\ regpc = [t \in RegCalls |-> "idle"]
    /\ regId = [t \in RegCalls |-> 0]
    /\ regPath = [t \in RegCalls |-> <<>>]

RECURSIVE removeClientPathsFrom(_, _, _)
\* TunnelService.removeClientPaths: the loop over client.Paths
removeClientPathsFrom(idx, paths, id) ==
    IF paths = <<>> THEN idx
    ELSE removeClientPathsFrom(CleanupPath(idx, normalizePath(Head(paths)), id),
                               Tail(paths), id)

\* TunnelService.removeClientPaths
removeClientPaths(idx, client) == removeClientPathsFrom(idx, client.Paths, client.ID)

\* TunnelService.Register, the checks made before s.mu is taken:
\* an empty client ID, an empty path and an empty port list are errors
TsRegisterCheck(t, id, path) ==
    /\ Running
    /\ regpc[t] = "idle"
    /\ regId' = [regId EXCEPT ![t] = id]
    /\ regPath' = [regPath EXCEPT ![t] = path]
    /\ regpc' = [regpc EXCEPT ![t] =
                    IF id = 0 \/ Len(path) = 0 \/ Len(availablePorts) = 0
                    THEN "failed" ELSE "checked"]
    /\ UNCHANGED <<tsClients, pathClients, availablePorts, panicked>>

\* TunnelService.Register under s.mu: an old client of the same ID goes, the
\* first available port is taken (availablePorts[0] panics on an empty
\* list), the normalized path is indexed and the client stored
TsRegisterLocked(t) ==
    /\ Running
    /\ regpc[t] = "checked"
    /\ IF Len(availablePorts) = 0
       THEN /\ panicked' = "index out of range"
            /\ UNCHANGED <<tsClients, pathClients, availablePorts, regpc>>
       ELSE LET id == regId[t]
                idx0 == IF id \in DOMAIN tsClients
                        THEN removeClientPaths(pathClients, tsClients[id])
                        ELSE pathClients
                np == normalizePath(regPath[t])
            IN /\ availablePorts' = Tail(availablePorts)
               /\ pathClients' = IndexAppend(idx0, np, id)
               /\ tsClients' = MapPut(tsClients, id,
                                      [ID |-> id, Paths |-> <<np>>,
                                       Status |-> "connecting",
                                       Port |-> Head(availablePorts)])
               /\ regpc' = [regpc EXCEPT ![t] = "done"]
               /\ UNCHANGED panicked
    /\ UNCHANGED <<regId, regPath>>

(***************************************************************************)
(* The TunnelService: response waiters (the Correlator).                   *)
(***************************************************************************)
Callers == 1..MaxCallers
ReqIds == 1..MaxReqIds
Delivers == 1..MaxDelivers

StreamRequestType_HTTP_RESPONSE == 1
StreamRequestType_HEARTBEAT == 2
StreamRequestTypes == {StreamRequestType_HTTP_RESPONSE, StreamRequestType_HEARTBEAT}

\* no handleHTTPRequest call, no handleHTTPResponse call, an empty sync.Map
InitCorrelator ==
    /\ responseWaiters = <<>>
    /\ waiterChan = [c \in Callers |-> <<>>]
    /\ cpc = [c \in Callers |-> "idle"]
    /\ creq = [c \in Callers |-> 0]
    /\ cclient = [c \in Callers |-> 0]
    /\ cresult = [c \in Callers |-> "none"]
    /\ creceived = [c \in Callers |-> 0]
    /\ hpc = [d \in Delivers |-> "idle"]
    /\ hreq = [d \in Delivers |-> 0]
    /\ htype = [d \in Delivers |-> 0]
    /\ hwaiter = [d \in Delivers |-> 0]
    /\ hresult = [d \in Delivers |-> "none"]

\* handleHTTPRequest: a fresh waiter is made and stored under requestID
\* (sync.Map.Store replaces what the key held), its removal is deferred
AwaitStore(c, rid, clientID) ==
    /\ Running
    /\ cpc[c] = "idle"
    /\ responseWaiters' = MapPut(responseWaiters, rid, c)
    /\ waiterChan' = [waiterChan EXCEPT ![c] = <<>>]
    /\ cpc' = [cpc EXCEPT ![c] = "stored"]
    /\ creq' = [creq EXCEPT ![c] = rid]
    /\ cclient' = [cclient EXCEPT ![c] = clientID]
    /\ UNCHANGED <<cresult, creceived, hpc, hreq, htype, hwaiter, hresult>>

\* handleHTTPRequest: SendToClient; an unknown client is an error, and the
\* deferred s.responseWaiters.Delete(requestID) runs
AwaitSend(c) ==
    /\ Running
    /\ cpc[c] = "stored"
    /\ IF cclient[c] \in DOMAIN tsClients
       THEN /\ cpc' = [cpc EXCEPT ![c] = "waiting"]
            /\ UNCHANGED <<responseWaiters, cresult>>
       ELSE /\ cpc' = [cpc EXCEPT ![c] = "done"]
            /\ cresult' = [cresult EXCEPT ![c] = "send failed"]
            /\ responseWaiters' = MapDelete(responseWaiters, creq[c])
    /\ cclient' = [cclient EXCEPT ![c] = 0]
    /\ UNCHANGED <<waiterChan, creq, creceived, hpc, hreq, htype, hwaiter, hresult>>

\* handleHTTPRequest: case resp := <-waiter.Response, then the deferred Delete
AwaitReceive(c) ==
    /\ Running
    /\ cpc[c] = "waiting"
    /\ waiterChan[c] # <<>>
    /\ creceived' = [creceived EXCEPT ![c] = Head(waiterChan[c]).from]
    /\ cresult' = [cresult EXCEPT ![c] =
                      IF Head(waiterChan[c]).type = "ERROR" THEN "client error" ELSE "ok"]
    /\ waiterChan' = [waiterChan EXCEPT ![c] = Tail(@)]
    /\ responseWaiters' = MapDelete(responseWaiters, creq[c])
    /\ cpc' = [cpc EXCEPT ![c] = "done"]
    /\ UNCHANGED <<creq, cclient, hpc, hreq, htype, hwaiter, hresult>>

\* the 30 s timeout firing without the deferred Delete having been written
AwaitTimeoutNoDelete(c) ==
    /\ Running
    /\ cpc[c] = "waiting"
    /\ cresult' = [cresult EXCEPT ![c] = "timeout"]
    /\ cpc' = [cpc EXCEPT ![c] = "done"]
    /\ UNCHANGED <<responseWaiters, waiterChan, creq, cclient, creceived, hpc,
                   hreq, htype, hwaiter, hresult>>

\* handleHTTPRequest: case <-time.After(30 * time.Second), then the deferred Delete
AwaitTimeout(c) ==
    /\ Running
    /\ cpc[c] = "waiting"
    /\ cresult' = [cresult EXCEPT ![c] = "timeout"]
    /\ responseWaiters' = MapDelete(responseWaiters, creq[c])
    /\ cpc' = [cpc EXCEPT ![c] = "done"]
    /\ UNCHANGED <<waiterChan, creq, cclient, creceived, hpc, hreq, htype,
                   hwaiter, hresult>>

\* handleHTTPRequest: case <-ctx.Done(), then the deferred Delete
AwaitCancel(c) ==
    /\ Running
    /\ cpc[c] = "waiting"
    /\ cresult' = [cresult EXCEPT ![c] = "cancelled"]
    /\ responseWaiters' = MapDelete(responseWaiters, creq[c])
    /\ cpc' = [cpc EXCEPT ![c] = "done"]
    /\ UNCHANGED <<waiterChan, creq, cclient, creceived, hpc, hreq, htype,
                   hwaiter, hresult>>

\* handleHTTPResponse that reports no error when it finds no waiter
DeliverLoadSwallow(d, rid, ty) ==
    /\ Running
    /\ hpc[d] = "idle"
    /\ hreq' = [hreq EXCEPT ![d] = rid]
    /\ IF rid = 0
       THEN /\ hresult' = [hresult EXCEPT ![d] = "empty request ID"]
            /\ hpc' = [hpc EXCEPT ![d] = "done"]
            /\ UNCHANGED <<hwaiter, htype>>
       ELSE IF rid \notin DOMAIN responseWaiters
       THEN /\ hresult' = [hresult EXCEPT ![d] = "success"]
            /\ hpc' = [hpc EXCEPT ![d] = "done"]
            /\ UNCHANGED <<hwaiter, htype>>
       ELSE /\ hwaiter' = [hwaiter EXCEPT ![d] = responseWaiters[rid]]
            /\ htype' = [htype EXCEPT ![d] = ty]
            /\ hpc' = [hpc EXCEPT ![d] = "loaded"]
            /\ UNCHANGED hresult
    /\ UNCHANGED <<responseWaiters, waiterChan, cpc, creq, cclient, cresult, creceived>>

\* handleHTTPResponse: the empty request ID is an error; the waiter is
\* loaded from s.responseWaiters, and a missing one is an error
DeliverLoad(d, rid, ty) ==
    /\ Running
    /\ hpc[d] = "idle"
    /\ hreq' = [hreq EXCEPT ![d] = rid]
    /\ IF rid = 0
       THEN /\ hresult' = [hresult EXCEPT ![d] = "empty request ID"]
            /\ hpc' = [hpc EXCEPT ![d] = "done"]
            /\ UNCHANGED <<hwaiter, htype>>
       ELSE IF rid \notin DOMAIN responseWaiters
       THEN /\ hresult' = [hresult EXCEPT ![d] = "no waiter found"]
            /\ hpc' = [hpc EXCEPT ![d] = "done"]
            /\ UNCHANGED <<hwaiter, htype>>
       ELSE /\ hwaiter' = [hwaiter EXCEPT ![d] = responseWaiters[rid]]
            /\ htype' = [htype EXCEPT ![d] = ty]
            /\ hpc' = [hpc EXCEPT ![d] = "loaded"]
            /\ UNCHANGED hresult
    /\ UNCHANGED <<responseWaiters, waiterChan, cpc, creq, cclient, cresult, creceived>>

\* handleHTTPResponse: the response is built by req.Type and sent without
\* blocking on the loaded waiter's channel; a full channel is an error
DeliverSend(d) ==
    /\ Running
    /\ hpc[d] = "loaded"
    /\ IF Len(waiterChan[hwaiter[d]]) < 1
       THEN /\ waiterChan' = [waiterChan EXCEPT ![hwaiter[d]] =
                   Append(@, [from |-> d,
                              type |-> IF htype[d] = StreamRequestType_HTTP_RESPONSE
                                       THEN "HTTP_RESPONSE" ELSE "ERROR"])]
            /\ hresult' = [hresult EXCEPT ![d] = "success"]
       ELSE /\ hresult' = [hresult EXCEPT ![d] = "response channel full"]
            /\ UNCHANGED waiterChan
    /\ hpc' = [hpc EXCEPT ![d] = "done"]
    /\ htype' = [htype EXCEPT ![d] = 0]
    /\ hwaiter' = [hwaiter EXCEPT ![d] = 0]
    /\ UNCHANGED <<responseWaiters, cpc, creq, cclient, cresult, creceived, hreq>>

(***************************************************************************)
(* The TCPManager, HTTPFrontend.RegisterHandler and the connections the    *)
(* listeners accept.                                                       *)
(***************************************************************************)
\* the cap of the port inventory (NewTCPManager sets maxPorts: 10)
maxPorts == 3
\* GetAvailablePort's loop: for attempts := 0; attempts < 1000; attempts++
ScanAttempts == 1000
\* RegisterHandler's f.tcpManager.GetAvailablePort(10000)
FrontendStartPort == 10000
\* GetAvailablePort's default starting port if none is specified
DefaultStartPort == 8000

FrontCalls == 1..MaxFront
Conns == 1..MaxConns

\* NewTCPManager; no other process holds a port of the range
InitTCPManager ==
    /\ listeners = {}
    /\ portInventory = <<>>
    /\ mmuStuck = FALSE
    /\ osBusy = {}
    /\ allocPort = -1
    /\ acceptLoops = <<>>
    /\ lret = 0
    /\ lbound = FALSE

\* no RegisterHandler call has begun
InitFrontend ==
    /\ fpc = [f \in FrontCalls |-> "idle"]
    /\ fid = [f \in FrontCalls |-> 0]
    /\ fproto = [f \in FrontCalls |-> ClientTypeHTTP]
    /\ fport = [f \in FrontCalls |-> 0]
    /\ fkey = [f \in FrontCalls |-> 0]

\* no connection has been accepted
InitConnections ==
    /\ kpc = [k \in Conns |-> "none"]
    /\ kport = [k \in Conns |-> 0]
    /\ kclient = [k \in Conns |-> 0]
    /\ connClosed = [k \in Conns |-> FALSE]

\* a lookup in m.listeners that finds no listener, whatever the port
ListenerNeverExists(port) == FALSE

\* listener, exists := m.listeners[port]
ListenerExists(port) == port \in listeners

\* go m.acceptConnections(listener, port): one more accept loop for the port
StartAcceptLoop(port) ==
    MapPut(acceptLoops, port,
           IF port \in DOMAIN acceptLoops THEN acceptLoops[port] + 1 ELSE 1)

\* net.Listen("tcp", port) succeeds
ListenSucceeds(port) == port \notin listeners /\ port \notin osBusy

\* the elements of a sequence
Range(s) == {s[i] : i \in 1..Len(s)}

RECURSIVE ScanPorts(_, _)
\* GetAvailablePort's loop from currentPort: the first port net.Listen
\* accepts, 0 when the attempts run out
ScanPorts(currentPort, attempts) ==
    IF attempts = 0 THEN 0
    ELSE IF ListenSucceeds(currentPort) THEN currentPort
    ELSE ScanPorts(currentPort + 1, attempts - 1)

\* GetAvailablePort testing len(m.portInventory) > m.maxPorts
GetAvailablePortPastCap(startPort) ==
    IF Len(portInventory) > maxPorts THEN 0
    ELSE IF startPort > 0 /\ ListenSucceeds(startPort) THEN startPort
    ELSE ScanPorts(IF startPort <= 0 THEN DefaultStartPort ELSE startPort,
                   ScanAttempts)

\* the port TCPManager.GetAvailablePort returns, 0 with its errors
GetAvailablePort(startPort) ==
    IF Len(portInventory) >= maxPorts THEN 0
    ELSE IF startPort > 0 /\ ListenSucceeds(startPort) THEN startPort
    ELSE ScanPorts(IF startPort <= 0 THEN DefaultStartPort ELSE startPort,
                   ScanAttempts)

\* a call of TCPManager.GetAvailablePort(startPort), under m.mu
GetAvailablePortCall(startPort) ==
    /\ Running
    /\ ~mmuStuck
    /\ allocPort' = GetAvailablePort(startPort)
    /\ portInventory' = IF allocPort' = 0 THEN portInventory
                        ELSE Append(portInventory, allocPort')
    /\ UNCHANGED <<listeners, mmuStuck, osBusy, acceptLoops, lret, lbound>>

\* a call of TCPManager.StartOrReuseListener(port), under m.mu: the
\* listener of the port if there is one, else net.Listen; when that fails
\* it calls GetAvailablePort, which waits for the m.mu its caller holds
StartOrReuseListenerCall(port) ==
    /\ Running
    /\ ~mmuStuck
    /\ IF ListenerExists(port)
       THEN /\ lret' = port
            /\ lbound' = FALSE
            /\ UNCHANGED <<listeners, mmuStuck, acceptLoops>>
       ELSE IF ListenSucceeds(port)
       THEN /\ listeners' = listeners \cup {port}
            /\ acceptLoops' = StartAcceptLoop(port)
            /\ lret' = port
            /\ lbound' = TRUE
            /\ UNCHANGED mmuStuck
       ELSE /\ mmuStuck' = TRUE
            /\ UNCHANGED <<listeners, acceptLoops, lret, lbound>>
    /\ UNCHANGED <<portInventory, osBusy, allocPort>>

\* the ports from 10000 on that another process may bind and release
OsPorts == FrontendStartPort..(FrontendStartPort + MaxOsPorts - 1)

\* another process binds a free port
OsBind(port) ==
    /\ Running
    /\ ListenSucceeds(port)
    /\ osBusy' = osBusy \cup {port}
    /\ UNCHANGED <<listeners, portInventory, mmuStuck, allocPort, acceptLoops,
                   lret, lbound>>

\* another process closes the port it had bound
OsRelease(port) ==
    /\ Running
    /\ port \in osBusy
    /\ osBusy' = osBusy \ {port}
    /\ UNCHANGED <<listeners, portInventory, mmuStuck, allocPort, acceptLoops,
                   lret, lbound>>

\* RegisterHandler up to the port allocation: the request is validated
\* (an empty client_id is answered 400), then GetAvailablePort(10000)
RegisterHandlerAllocate(f, id, proto) ==
    /\ Running
    /\ fpc[f] = "idle"
    /\ fid' = [fid EXCEPT ![f] = id]
    /\ fproto' = [fproto EXCEPT ![f] = proto]
    /\ IF id = 0
       THEN /\ fpc' = [fpc EXCEPT ![f] = "failed"]
            /\ UNCHANGED <<portInventory, fport, allocPort>>
       ELSE /\ ~mmuStuck
            /\ LET port == GetAvailablePort(FrontendStartPort)
               IN /\ allocPort' = port
                  /\ IF port = 0
                     THEN /\ fpc' = [fpc EXCEPT ![f] = "failed"]
                          /\ UNCHANGED <<portInventory, fport>>
                     ELSE /\ portInventory' = Append(portInventory, port)
                          /\ fport' = [fport EXCEPT ![f] = port]
                          /\ fpc' = [fpc EXCEPT ![f] = "allocated"]
    /\ UNCHANGED <<listeners, mmuStuck, osBusy, acceptLoops, lret, lbound,
                   fkey>>
    /\ UNCHANGED <<dvars, panicked, rvars, tvars, cvars, kvars,
                   pvars, svars, mainpc, poolvars, listvars>>

\* RegisterHandler's f.tcpManager.StartOrReuseListener(port). When net.Listen
\* fails it calls GetAvailablePort, which locks m.mu, while it holds m.mu:
\* the call never returns and m.mu is never released.
StartOrReuseListener(f) ==
    /\ Running
    /\ fpc[f] = "allocated"
    /\ ~mmuStuck
    /\ IF ListenerExists(fport[f])
       THEN /\ fpc' = [fpc EXCEPT ![f] = "listening"]
            /\ lret' = fport[f]
            /\ lbound' = FALSE
            /\ UNCHANGED <<listeners, mmuStuck, acceptLoops>>
       ELSE IF ListenSucceeds(fport[f])
       THEN /\ listeners' = listeners \cup {fport[f]}
            /\ acceptLoops' = StartAcceptLoop(fport[f])
            /\ lret' = fport[f]
            /\ lbound' = TRUE
            /\ fpc' = [fpc EXCEPT ![f] = "listening"]
            /\ UNCHANGED mmuStuck
       ELSE /\ mmuStuck' = TRUE
            /\ fpc' = [fpc EXCEPT ![f] = "blocked"]
            /\ UNCHANGED <<listeners, acceptLoops, lret, lbound>>
    /\ UNCHANGED <<portInventory, osBusy, allocPort, fid, fproto, fport, fkey>>
    /\ UNCHANGED <<dvars, panicked, rvars, tvars, cvars, kvars,
                   pvars, svars, mainpc, poolvars, listvars>>

\* RegisterHandler's f.registry.RegisterClient(req.Paths, clientType, metadata)
RegisterHandlerRegister(f, paths) ==
    /\ fpc[f] = "listening"
    /\ RegisterClient(paths, fproto[f])
    /\ fkey' = [fkey EXCEPT ![f] = nextUuid]
    /\ fpc' = [fpc EXCEPT ![f] =
                  IF fproto[f] = ClientTypeTCP THEN "blocked" ELSE "registered"]
    /\ UNCHANGED <<fid, fproto, fport>>
    /\ UNCHANGED <<dvars, panicked, tvars, cvars, mvars, kvars,
                   pvars, svars, mainpc, poolvars, listvars>>

\* RegisterHandler's clientReg.ID = req.ClientID; clientReg.TCPPort = port,
\* written without a lock to the record the Registry holds, and the response
RegisterHandlerUpdate(f) ==
    /\ Running
    /\ fpc[f] = "registered"
    /\ clients' = IF fkey[f] \in DOMAIN clients
                  THEN [clients EXCEPT ![fkey[f]].ID = fid[f],
                                       ![fkey[f]].TCPPort = fport[f]]
                  ELSE clients
    /\ fpc' = [fpc EXCEPT ![f] = "done"]
    /\ UNCHANGED <<pathToClientIDs, availableTCPPort, rmuStuck, nextUuid, now, rerr>>
    /\ UNCHANGED <<fid, fproto, fport, fkey>>
    /\ UNCHANGED <<dvars, panicked, tvars, cvars, mvars, kvars,
                   pvars, svars, mainpc, poolvars, listvars>>

\* acceptConnections: listener.Accept() returns a connection and
\* go m.handleConnection(conn, port)
acceptConnections(k, port) ==
    /\ Running
    /\ kpc[k] = "none"
    /\ port \in listeners
    /\ kport' = [kport EXCEPT ![k] = port]
    /\ kpc' = [kpc EXCEPT ![k] = "read"]
    /\ UNCHANGED <<kclient, connClosed>>
    /\ UNCHANGED <<dvars, panicked, rvars, tvars, cvars, mvars, fvars,
                   pvars, svars, mainpc, poolvars, listvars>>

\* handleConnection's conn.Read(buffer): with an error it returns
HandleConnectionRead(k, ok) ==
    /\ Running
    /\ kpc[k] = "read"
    /\ kpc' = [kpc EXCEPT ![k] = IF ok THEN "find" ELSE "close"]
    /\ UNCHANGED <<kport, kclient, connClosed>>
    /\ UNCHANGED <<dvars, panicked, rvars, tvars, cvars, mvars, fvars,
                   pvars, svars, mainpc, poolvars, listvars>>

\* the records of ListClients() whose TCPPort is the port, by their keys
ClientsOnPort(port) == {key \in DOMAIN clients : clients[key].TCPPort = port}

\* Registry.IncrementTCPConnection: r.clients[clientID], an error if absent
IncrementTCPConnection(cl, clientID) ==
    IF clientID \in DOMAIN cl
    THEN [cl EXCEPT ![clientID].ActiveTCPConnections = @ + 1]
    ELSE cl

\* DecrementTCPConnection without its test client.ActiveTCPConnections > 0
DecrementUnguarded(cl, clientID) ==
    IF clientID \in DOMAIN cl
    THEN [cl EXCEPT ![clientID].ActiveTCPConnections = @ - 1]
    ELSE cl

\* Registry.DecrementTCPConnection: never below zero
DecrementTCPConnection(cl, clientID) ==
    IF clientID \in DOMAIN cl /\ cl[clientID].ActiveTCPConnections > 0
    THEN [cl EXCEPT ![clientID].ActiveTCPConnections = @ - 1]
    ELSE cl

\* a call of Registry.IncrementTCPConnection(clientID), under r.mu
IncrementCall(clientID) ==
    /\ Running
    /\ ~rmuStuck
    /\ clientID \in DOMAIN clients => clients[clientID].ActiveTCPConnections < MaxCount
    /\ clients' = IncrementTCPConnection(clients, clientID)
    /\ rerr' = ClientNotFound(clients, clientID)
    /\ UNCHANGED <<pathToClientIDs, availableTCPPort, rmuStuck, nextUuid, now>>

\* a call of Registry.DecrementTCPConnection(clientID), under r.mu
DecrementCall(clientID) ==
    /\ Running
    /\ ~rmuStuck
    /\ clients' = DecrementTCPConnection(clients, clientID)
    /\ rerr' = ClientNotFound(clients, clientID)
    /\ UNCHANGED <<pathToClientIDs, availableTCPPort, rmuStuck, nextUuid, now>>

\* handleConnection's search for the client of the port: the first record
\* the map iteration yields with that TCPPort is selected and
\* IncrementTCPConnection(client.ID) is called; with none it returns
HandleConnectionFind(k) ==
    /\ Running
    /\ kpc[k] = "find"
    /\ IF ClientsOnPort(kport[k]) = {}
       THEN /\ kpc' = [kpc EXCEPT ![k] = "close"]
            /\ UNCHANGED <<kclient, clients>>
       ELSE /\ ~rmuStuck
            /\ \E key \in ClientsOnPort(kport[k]) :
                /\ clients' = IncrementTCPConnection(clients, clients[key].ID)
                /\ kclient' = [kclient EXCEPT ![k] = key]
            /\ kpc' = [kpc EXCEPT ![k] = "submit"]
    /\ UNCHANGED <<pathToClientIDs, availableTCPPort, rmuStuck, nextUuid, now, rerr>>
    /\ UNCHANGED <<kport, connClosed>>
    /\ UNCHANGED <<dvars, panicked, tvars, cvars, mvars, fvars,
                   pvars, svars, mainpc, poolvars, listvars>>

\* handleConnection builds the UpdatedTCPConnectionJob and calls
\* m.dispatcher.Submit(job), whose result it drops; then it returns
HandleConnectionSubmit(k) ==
    /\ kpc[k] = "submit"
    /\ Submit(k)
    /\ kpc' = [kpc EXCEPT ![k] = "close"]
    /\ UNCHANGED <<kport, kclient, connClosed>>
    /\ UNCHANGED <<rvars, tvars, cvars, mvars, fvars,
                   pvars, svars, mainpc, poolvars, listvars>>

\* handleConnection's deferred function, conn.Close()
HandleConnectionClose(k) ==
    /\ Running
    /\ kpc[k] = "close"
    /\ connClosed' = [connClosed EXCEPT ![k] = TRUE]
    /\ kpc' = [kpc EXCEPT ![k] = "decrement"]
    /\ UNCHANGED <<kport, kclient>>
    /\ UNCHANGED <<dvars, panicked, rvars, tvars, cvars, mvars, fvars,
                   pvars, svars, mainpc, poolvars, listvars>>

\* handleConnection's deferred function, the search for the client of the
\* port and DecrementTCPConnection(client.ID)
HandleConnectionDecrement(k) ==
    /\ Running
    /\ kpc[k] = "decrement"
    /\ IF ClientsOnPort(kport[k]) = {}
       THEN UNCHANGED clients
       ELSE /\ ~rmuStuck
            /\ \E key \in ClientsOnPort(kport[k]) :
                clients' = DecrementTCPConnection(clients, clients[key].ID)
    /\ kpc' = [kpc EXCEPT ![k] = "done"]
    /\ UNCHANGED <<pathToClientIDs, availableTCPPort, rmuStuck, nextUuid, now, rerr>>
    /\ UNCHANGED <<kport, kclient, connClosed>>
    /\ UNCHANGED <<dvars, panicked, tvars, cvars, mvars, fvars,
                   pvars, svars, mainpc, poolvars, listvars>>

\* UpdatedTCPConnectionJob.Execute returns in a worker: genericConnectionHandler
\* has run its deferred j.Connection.Close()
ConnectionJobFinish(w) ==
    /\ WorkerFinish(w)
    /\ connClosed' = [connClosed EXCEPT ![wjob[w]] = TRUE]
    /\ UNCHANGED <<kpc, kport, kclient>>
    /\ UNCHANGED <<rvars, tvars, cvars, mvars, fvars,
                   pvars, svars, mainpc, poolvars, listvars>>

(***************************************************************************)
(* HTTPFrontend.ProxyHandler and the HTTPProxyJob it hands to the          *)
(* Dispatcher.                                                             *)
(***************************************************************************)
Proxies == 1..MaxProxy

\* no request has reached ProxyHandler
InitProxy ==
    /\ ppc = [q \in Proxies |-> "idle"]
    /\ pstatus = [q \in Proxies |-> "none"]

\* ProxyHandler: FindClientForPath(r.URL.Path), whose error is answered 404;
\* client := clients[0], which panics on the empty list FindClientForPath
\* returns when no ID under the path has a record (net/http recovers the
\* panic of a handler and drops the connection without a response); then
\* the job is built and f.dispatcher.Submit(job) called, its result dropped
ProxyHandler(q, path) ==
    /\ Running
    /\ ppc[q] = "idle"
    /\ ~rmuStuck
    /\ IF FindClientForPathErr(path)
       THEN /\ pstatus' = [pstatus EXCEPT ![q] = "404 Not Found"]
            /\ ppc' = [ppc EXCEPT ![q] = "returned"]
            /\ UNCHANGED <<dvars, panicked>>
       ELSE IF FindClientForPath(path) = <<>>
       THEN /\ pstatus' = [pstatus EXCEPT ![q] = "panic: index out of range"]
            /\ ppc' = [ppc EXCEPT ![q] = "returned"]
            /\ UNCHANGED <<dvars, panicked>>
       ELSE /\ Submit(q)
            /\ ppc' = [ppc EXCEPT ![q] = "submitted"]
            /\ UNCHANGED pstatus
    /\ UNCHANGED <<rvars, tvars, cvars, mvars, fvars, kvars, svars, mainpc, poolvars, listvars>>

\* ProxyHandler returns after Submit: when nothing has written to the
\* ResponseWriter, net/http answers 200 OK with an empty body
ProxyHandlerReturn(q) ==
    /\ Running
    /\ ppc[q] = "submitted"
    /\ ppc' = [ppc EXCEPT ![q] = "returned"]
    /\ pstatus' = [pstatus EXCEPT ![q] = IF @ = "none" THEN "200 OK" ELSE @]
    /\ UNCHANGED <<dvars, panicked, rvars, tvars, cvars, mvars, fvars, kvars,
                   svars, mainpc, poolvars, listvars>>

\* HTTPProxyJob.Execute in a worker: WriteHeader(http.StatusNotImplemented);
\* it reaches the HTTP client only while ProxyHandler has not returned
ProxyJobFinish(w) ==
    /\ WorkerFinish(w)
    /\ pstatus' = [pstatus EXCEPT ![wjob[w]] =
                      IF ppc[wjob[w]] = "submitted" /\ @ = "none"
                      THEN "501 Not Implemented" ELSE @]
    /\ UNCHANGED ppc
    /\ UNCHANGED <<rvars, tvars, cvars, mvars, fvars, kvars, svars, mainpc, poolvars, listvars>>

(***************************************************************************)
(* The tunnel server of cmd/server: TCPManager.handleClient (server.go).   *)
(* A message is the sequence of its characters; "c" and "d" are characters *)
(* of client IDs, "p" is a character of a path and "h" stands for the word *)
(* heartbeat.                                                              *)
(***************************************************************************)
Tunnels == 1..MaxTunnels

\* what the first c.Read may bring: "c|p\n", "d|p\n", "|p\n", "c|\n", "c\n",
\* "c|p|p\n", " |p\n", and "c|p\n" with a heartbeat line right behind it
FirstMessages ==
    { <<"c", "|", "p", "\n">>, <<"d", "|", "p", "\n">>, <<"|", "p", "\n">>,
      <<"c", "|", "\n">>, <<"c", "\n">>, <<"c", "|", "p", "|", "p", "\n">>,
      <<" ", "|", "p", "\n">>, <<"c", "|", "p", "\n", "h", "\n">> }

\* what a later c.Read may bring: one heartbeat line, two heartbeat lines
\* that reached the socket before the Read, or another line
LaterMessages ==
    { <<"h", "\n">>, <<"h", "\n", "h", "\n">>, <<"p", "\n">> }

IsSpace(ch) == ch \in {" ", "\n"}

RECURSIVE TrimLeft(_)
TrimLeft(m) == IF m # <<>> /\ IsSpace(Head(m)) THEN TrimLeft(Tail(m)) ELSE m

RECURSIVE TrimRight(_)
TrimRight(m) ==
    IF m # <<>> /\ IsSpace(m[Len(m)]) THEN TrimRight(SubSeq(m, 1, Len(m) - 1)) ELSE m

\* strings.TrimSpace
TrimSpace(m) == TrimRight(TrimLeft(m))

RECURSIVE Split(_)
\* strings.Split(m, "|")
Split(m) ==
    IF \E i \in 1..Len(m) : m[i] = "|"
    THEN LET i == CHOOSE k \in 1..Len(m) :
                      m[k] = "|" /\ \A n \in 1..(k - 1) : m[n] # "|"
         IN <<SubSeq(m, 1, i - 1)>> \o Split(SubSeq(m, i + 1, Len(m)))
    ELSE <<m>>

\* strings.ReplaceAll(path, "\n", "")
RemoveNewlines(m) == SelectSeq(m, LAMBDA ch : ch # "\n")

\* handleClient's parts := strings.Split(strings.TrimSpace(msg), "|")
Parts(msg) == Split(TrimSpace(msg))

\* handleClient's clientID, "" when the message has not two parts
ParsedClientID(msg) ==
    IF Len(Parts(msg)) # 2 THEN <<>> ELSE TrimSpace(Parts(msg)[1])

\* handleClient's path, "" when the message has not two parts
ParsedPath(msg) ==
    IF Len(Parts(msg)) # 2 THEN <<>> ELSE RemoveNewlines(TrimSpace(Parts(msg)[2]))

\* handleClient goes on to register: two parts, neither of them empty
Registers(msg) == ParsedClientID(msg) # <<>> /\ ParsedPath(msg) # <<>>

\* the heartbeat lines of a message
HeartbeatLines(m) == Len(SelectSeq(m, LAMBDA ch : ch = "h"))

\* NewTCPManager of cmd/server; no connection accepted
InitTunnels ==
    /\ sclients = <<>>
    /\ tpc = [x \in Tunnels |-> "none"]
    /\ tfirst = [x \in Tunnels |-> <<>>]
    /\ tid = [x \in Tunnels |-> <<>>]
    /\ twritten = [x \in Tunnels |-> <<>>]
    /\ tbeats = [x \in Tunnels |-> 0]
    /\ tclosed = [x \in Tunnels |-> FALSE]

\* what the steps of the tunnel server leave alone
ServerOnly ==
    UNCHANGED <<dvars, panicked, rvars, tvars, cvars, mvars, fvars, kvars, pvars,
                mainpc, poolvars, listvars>>

\* HandleIncomingRequests: AcceptConnection and go m.handleClient(conn)
HandleIncomingRequests(x) ==
    /\ Running
    /\ tpc[x] = "none"
    /\ tpc' = [tpc EXCEPT ![x] = "first"]
    /\ UNCHANGED <<sclients, tfirst, tid, twritten, tbeats, tclosed>>
    /\ ServerOnly

\* m.clients of cmd/server after TCPManager.RemoveClient with its
\* delete(m.clients, clientID) left out
ServerRemoveClientKeep(cl, clientID) == cl

\* m.clients of cmd/server after TCPManager.RemoveClient(clientID)
ServerRemoveClient(cl, clientID) == MapDelete(cl, clientID)

\* the connections closed after TCPManager.RemoveClient(clientID) and the
\* deferred c.Close() of handleClient for connection x
ClosedBy(cl, clientID, x) ==
    [y \in Tunnels |->
        \/ tclosed[y]
        \/ y = x
        \/ clientID \in DOMAIN cl /\ cl[clientID].conn = y]

\* handleClient up to its loop: the first message is read and parsed. With
\* not two parts, or an empty clientID or path, it returns and the deferred
\* c.Close() runs. Else m.RegisterClient(clientID, path, c) and the
\* confirmation "registered\n" is written; when that fails,
\* m.RemoveClient(clientID) and return.
HandleClientFirst(x, msg, writeOk) ==
    /\ Running
    /\ tpc[x] = "first"
    /\ ~tclosed[x]
    /\ tfirst' = [tfirst EXCEPT ![x] = msg]
    /\ tid' = [tid EXCEPT ![x] = ParsedClientID(msg)]
    /\ UNCHANGED tbeats
    /\ IF ~Registers(msg)
       THEN /\ tpc' = [tpc EXCEPT ![x] = "closed"]
            /\ tclosed' = [tclosed EXCEPT ![x] = TRUE]
            /\ UNCHANGED <<sclients, twritten>>
       ELSE LET registered == MapPut(sclients, ParsedClientID(msg),
                                     [conn |-> x, path |-> ParsedPath(msg)])
            IN IF writeOk
               THEN /\ sclients' = registered
                    /\ twritten' = [twritten EXCEPT ![x] = Append(@, "registered")]
                    /\ tpc' = [tpc EXCEPT ![x] = "loop"]
                    /\ UNCHANGED tclosed
               ELSE /\ sclients' = ServerRemoveClient(registered, ParsedClientID(msg))
                    /\ tclosed' = ClosedBy(registered, ParsedClientID(msg), x)
                    /\ tpc' = [tpc EXCEPT ![x] = "closed"]
                    /\ UNCHANGED twritten
    /\ ServerOnly

\* handleClient's first c.Read fails: return, and the deferred c.Close()
HandleClientFirstError(x) ==
    /\ Running
    /\ tpc[x] = "first"
    /\ tpc' = [tpc EXCEPT ![x] = "closed"]
    /\ tclosed' = [tclosed EXCEPT ![x] = TRUE]
    /\ UNCHANGED <<sclients, tfirst, tid, twritten, tbeats>>
    /\ ServerOnly

\* one turn of handleClient's loop: c.Read brings a message; when the
\* trimmed message is "heartbeat", UpdateClientActivity and the
\* acknowledgment "heartbeat-ack\n" is written, and when that write fails,
\* m.RemoveClient(clientID) and return; any other message is logged
HandleClientRead(x, msg, writeOk) ==
    /\ Running
    /\ tpc[x] = "loop"
    /\ ~tclosed[x]
    /\ tbeats[x] < MaxBeats
    /\ tbeats' = [tbeats EXCEPT ![x] = @ + HeartbeatLines(msg)]
    /\ IF TrimSpace(msg) # <<"h">>
       THEN UNCHANGED <<sclients, tpc, twritten, tclosed>>
       ELSE IF writeOk
       THEN /\ twritten' = [twritten EXCEPT ![x] = Append(@, "heartbeat-ack")]
            /\ UNCHANGED <<sclients, tpc, tclosed>>
       ELSE /\ sclients' = ServerRemoveClient(sclients, tid[x])
            /\ tclosed' = ClosedBy(sclients, tid[x], x)
            /\ tpc' = [tpc EXCEPT ![x] = "closed"]
            /\ UNCHANGED twritten
    /\ UNCHANGED <<tfirst, tid>>
    /\ ServerOnly

\* a c.Read of handleClient's loop fails (the peer closed the connection,
\* or RemoveClient closed it for another connection of the same client ID):
\* m.RemoveClient(clientID) and return
HandleClientReadError(x) ==
    /\ Running
    /\ tpc[x] = "loop"
    /\ sclients' = ServerRemoveClient(sclients, tid[x])
    /\ tclosed' = ClosedBy(sclients, tid[x], x)
    /\ tpc' = [tpc EXCEPT ![x] = "closed"]
    /\ UNCHANGED <<tfirst, tid, twritten, tbeats>>
    /\ ServerOnly

\* the tunnel server under any order of connections, messages and failures
NextTunnel ==
    \/ \E x \in Tunnels : HandleIncomingRequests(x)
    \/ \E x \in Tunnels, msg \in FirstMessages, writeOk \in BOOLEAN :
            HandleClientFirst(x, msg, writeOk)
    \/ \E x \in Tunnels : HandleClientFirstError(x)
    \/ \E x \in Tunnels, msg \in LaterMessages, writeOk \in BOOLEAN :
            HandleClientRead(x, msg, writeOk)
    \/ \E x \in Tunnels : HandleClientReadError(x)

(***************************************************************************)
(* The context-based Pool (pkg/worker/pool.go) and its Worker (part_004).  *)
(* p.jobQueue and every w.jobQueue are unbuffered: a send inside a select  *)
(* with a default goes through only when the receiver already waits.       *)
(***************************************************************************)
PoolWorkers == 1..MaxPoolWorkers
PoolJobs == 1..MaxPoolJobs

\* NewPool: no goroutine started, p.workerPool empty
InitPool ==
    /\ poolWorkerPool = <<>>
    /\ poolWpc = [w \in PoolWorkers |-> "absent"]
    /\ poolWjob = [w \in PoolWorkers |-> NoJob]
    /\ poolDpc = "absent"
    /\ poolDjob = NoJob
    /\ poolDworker = NoWorker
    /\ poolJobState = [j \in PoolJobs |-> "new"]
    /\ poolStop = 0
    /\ poolCtxDone = FALSE

\* what the steps of the Pool leave alone
PoolOnly ==
    UNCHANGED <<dvars, panicked, rvars, tvars, cvars, mvars, fvars, kvars, pvars,
                svars, mainpc, listvars>>

\* Pool.Start: go worker.Start(ctx) for each worker and go p.dispatch(ctx)
PoolStart ==
    /\ poolDpc = "absent"
    /\ poolWpc' = [w \in PoolWorkers |-> "register"]
    /\ poolDpc' = "loop"
    /\ UNCHANGED <<poolWorkerPool, poolWjob, poolDjob, poolDworker, poolJobState,
                   poolStop, poolCtxDone>>
    /\ PoolOnly

\* the worker's w.workerPool <- w.jobQueue; the worker goes on to its select
PoolWorkerRegister(w) ==
    /\ poolWpc[w] = "register"
    /\ Len(poolWorkerPool) < MaxPoolWorkers
    /\ poolWorkerPool' = Append(poolWorkerPool, w)
    /\ poolWpc' = [poolWpc EXCEPT ![w] = "toSelect"]
    /\ UNCHANGED <<poolWjob, poolDpc, poolDjob, poolDworker, poolJobState,
                   poolStop, poolCtxDone>>
    /\ PoolOnly

\* the worker reaches its select and waits in it for a Job, quit or ctx
PoolWorkerWait(w) ==
    /\ poolWpc[w] = "toSelect"
    /\ poolWpc' = [poolWpc EXCEPT ![w] = "select"]
    /\ UNCHANGED <<poolWorkerPool, poolWjob, poolDpc, poolDjob, poolDworker,
                   poolJobState, poolStop, poolCtxDone>>
    /\ PoolOnly

\* the worker's case <-ctx.Done(): return
PoolWorkerDone(w) ==
    /\ poolWpc[w] \in {"toSelect", "select"}
    /\ poolCtxDone
    /\ poolWpc' = [poolWpc EXCEPT ![w] = "exited"]
    /\ UNCHANGED <<poolWorkerPool, poolWjob, poolDpc, poolDjob, poolDworker,
                   poolJobState, poolStop, poolCtxDone>>
    /\ PoolOnly

\* job.Execute(ctx) returns: the worker loops
PoolWorkerFinish(w) ==
    /\ poolWpc[w] = "execute"
    /\ poolJobState' = [poolJobState EXCEPT ![poolWjob[w]] = "done"]
    /\ poolWjob' = [poolWjob EXCEPT ![w] = NoJob]
    /\ poolWpc' = [poolWpc EXCEPT ![w] = "register"]
    /\ UNCHANGED <<poolWorkerPool, poolDpc, poolDjob, poolDworker, poolStop,
                   poolCtxDone>>
    /\ PoolOnly

\* dispatch reaches its select and waits in it for ctx or a Job
PoolDispatchWait ==
    /\ poolDpc = "loop"
    /\ poolDpc' = "select"
    /\ UNCHANGED <<poolWorkerPool, poolWpc, poolWjob, poolDjob, poolDworker,
                   poolJobState, poolStop, poolCtxDone>>
    /\ PoolOnly

\* dispatch, case <-ctx.Done(): return
PoolDispatchDone ==
    /\ poolDpc \in {"loop", "select"}
    /\ poolCtxDone
    /\ poolDpc' = "exited"
    /\ UNCHANGED <<poolWorkerPool, poolWpc, poolWjob, poolDjob, poolDworker,
                   poolJobState, poolStop, poolCtxDone>>
    /\ PoolOnly

\* Pool.Submit: select { case p.jobQueue <- job: default: "Job queue is
\* full. Job dropped." }; the send meets dispatch's case job := <-p.jobQueue
\* when dispatch waits in its select
PoolSubmit(j) ==
    /\ poolJobState[j] = "new"
    /\ IF poolDpc = "select"
       THEN /\ poolDjob' = j
            /\ poolDpc' = "getWorker"
            /\ poolJobState' = [poolJobState EXCEPT ![j] = "dispatching"]
       ELSE /\ poolJobState' = [poolJobState EXCEPT ![j] = "refused"]
            /\ UNCHANGED <<poolDjob, poolDpc>>
    /\ UNCHANGED <<poolWorkerPool, poolWpc, poolWjob, poolDworker, poolStop,
                   poolCtxDone>>
    /\ PoolOnly

\* dispatch, jobQueue := <-p.workerPool
PoolDispatchGetWorker ==
    /\ poolDpc = "getWorker"
    /\ poolWorkerPool # <<>>
    /\ poolDworker' = Head(poolWorkerPool)
    /\ poolWorkerPool' = Tail(poolWorkerPool)
    /\ poolDpc' = "send"
    /\ UNCHANGED <<poolWpc, poolWjob, poolDjob, poolJobState, poolStop,
                   poolCtxDone>>
    /\ PoolOnly

\* dispatch, select { case jobQueue <- job: default: "Worker pool at
\* capacity. Job dropped." }: the worker gets the Job when it waits in its
\* select, else the Job is dropped
PoolDispatchSend ==
    /\ poolDpc = "send"
    /\ IF poolWpc[poolDworker] = "select"
       THEN /\ poolWpc' = [poolWpc EXCEPT ![poolDworker] = "execute"]
            /\ poolWjob' = [poolWjob EXCEPT ![poolDworker] = poolDjob]
            /\ poolJobState' = [poolJobState EXCEPT ![poolDjob] = "running"]
       ELSE /\ poolJobState' = [poolJobState EXCEPT ![poolDjob] = "dropped"]
            /\ UNCHANGED <<poolWpc, poolWjob>>
    /\ poolDpc' = "loop"
    /\ poolDjob' = NoJob
    /\ poolDworker' = NoWorker
    /\ UNCHANGED <<poolWorkerPool, poolStop, poolCtxDone>>
    /\ PoolOnly

\* the context given to Pool.Start is cancelled
PoolCancel ==
    /\ poolDpc # "absent"
    /\ ~poolCtxDone
    /\ poolCtxDone' = TRUE
    /\ UNCHANGED <<poolWorkerPool, poolWpc, poolWjob, poolDpc, poolDjob,
                   poolDworker, poolJobState, poolStop>>
    /\ PoolOnly

\* Pool.Stop is called: it goes to the first worker
PoolStopCall ==
    /\ poolDpc # "absent"
    /\ poolStop = 0
    /\ poolStop' = 1
    /\ UNCHANGED <<poolWorkerPool, poolWpc, poolWjob, poolDpc, poolDjob,
                   poolDworker, poolJobState, poolCtxDone>>
    /\ PoolOnly

\* Pool.Stop's worker.Stop(): w.quit <- true, met by the worker's
\* case <-w.quit: return
PoolStopSend ==
    /\ poolStop \in PoolWorkers
    /\ poolWpc[poolStop] \in {"toSelect", "select"}
    /\ poolWpc' = [poolWpc EXCEPT ![poolStop] = "exited"]
    /\ poolStop' = poolStop + 1
    /\ UNCHANGED <<poolWorkerPool, poolWjob, poolDpc, poolDjob, poolDworker,
                   poolJobState, poolCtxDone>>
    /\ PoolOnly

\* the Pool with its workers, its submitters, Stop and the cancellation
NextPool ==
    \/ PoolStart
    \/ \E w \in PoolWorkers : PoolWorkerRegister(w)
    \/ \E w \in PoolWorkers : PoolWorkerWait(w)
    \/ \E w \in PoolWorkers : PoolWorkerDone(w)
    \/ \E w \in PoolWorkers : PoolWorkerFinish(w)
    \/ PoolDispatchWait
    \/ PoolDispatchDone
    \/ \E j \in PoolJobs : PoolSubmit(j)
    \/ PoolDispatchGetWorker
    \/ PoolDispatchSend
    \/ PoolCancel
    \/ PoolStopCall
    \/ PoolStopSend

(***************************************************************************)
(* Registry.ListClients and a caller that iterates over what it returns    *)
(* (HTTPFrontend.StatusHandler).                                           *)
(***************************************************************************)
\* no ListClients call yet
InitListing ==
    /\ lpc = "idle"
    /\ lsnap = <<>>
    /\ lread = <<>>
    /\ lrace = FALSE

\* Registry.ListClients: return r.clients, the map itself, no lock taken;
\* what the caller holds is the table as it is now
ListClients == clients

\* StatusHandler: clients := f.registry.ListClients()
StatusHandlerList ==
    /\ Running
    /\ lpc = "idle"
    /\ lpc' = "iterating"
    /\ lsnap' = ListClients
    /\ UNCHANGED <<lread, lrace>>
    /\ UNCHANGED <<dvars, panicked, rvars, tvars, cvars, mvars, fvars, kvars, pvars,
                   svars, mainpc, poolvars>>

\* StatusHandler: for _, client := range clients, over the map it holds
StatusHandlerRange ==
    /\ Running
    /\ lpc = "iterating"
    /\ lpc' = "done"
    /\ lread' = ListClients
    /\ UNCHANGED <<lsnap, lrace>>
    /\ UNCHANGED <<dvars, panicked, rvars, tvars, cvars, mvars, fvars, kvars, pvars,
                   svars, mainpc, poolvars>>

\* a write to r.clients by another goroutine, beside the caller of
\* ListClients: while the caller iterates it is a data race
WriteBesideListing ==
    /\ lrace' = (lrace \/ lpc = "iterating")
    /\ UNCHANGED <<lpc, lsnap, lread>>
    /\ UNCHANGED <<dvars, panicked, tvars, cvars, mvars, fvars, kvars, pvars,
                   svars, mainpc, poolvars>>

\* the Go runtime notices the race, which it may or may not do: fatal
\* error, concurrent map iteration and map write
ListingRaceFatal ==
    /\ Running
    /\ lrace
    /\ lpc = "iterating"
    /\ panicked' = "concurrent map iteration and map write"
    /\ UNCHANGED <<dvars, rvars, tvars, cvars, mvars, fvars, kvars, pvars,
                   svars, mainpc, poolvars, listvars>>

\* a caller of ListClients beside registrations and removals
NextListing ==
    \/ StatusHandlerList
    \/ StatusHandlerRange
    \/ WriteBesideListing /\ \E p \in PathInputs, t \in ClientTypes :
                                 RegisterClient(<<p>>, t)
    \/ WriteBesideListing /\ \E id \in Uuids : RemoveClient(id)
    \/ ListingRaceFatal

\* what the steps of one component leave alone
DispatcherOnly ==
    UNCHANGED <<rvars, tvars, cvars, mvars, fvars, kvars, pvars, svars, mainpc, poolvars, listvars>>
RegistryOnly ==
    UNCHANGED <<dvars, panicked, tvars, cvars, mvars, fvars, kvars, pvars, svars,
                mainpc, poolvars, listvars>>
TunnelOnly ==
    UNCHANGED <<dvars, rvars, cvars, mvars, fvars, kvars, pvars, svars, mainpc, poolvars, listvars>>
CorrelatorOnly ==
    UNCHANGED <<dvars, panicked, rvars, tvars, mvars, fvars, kvars, pvars, svars,
                mainpc, poolvars, listvars>>

\* the requests are alike: they reach ProxyHandler in their order
InProxyOrder(q) == \A i \in Proxies : i < q => ppc[i] # "idle"

\* the Jobs are alike: the callers of Submit hand them in in their order
InSubmitOrder(j) == \A i \in Jobs : i < j => jobState[i] # "new"

NextDispatcher ==
    \/ DispatcherOnly /\ Start
    \/ DispatcherOnly /\ \E j \in Jobs : InSubmitOrder(j) /\ Submit(j)
    \/ DispatcherOnly /\ DispatchTakeJob
    \/ DispatcherOnly /\ DispatchStop
    \/ DispatcherOnly /\ DispatchGetWorker
    \/ DispatcherOnly /\ DispatchSend
    \/ DispatcherOnly /\ \E w \in WorkerIds : WorkerRegister(w)
    \/ DispatcherOnly /\ \E w \in WorkerIds : WorkerStop(w)
    \/ DispatcherOnly /\ \E w \in WorkerIds : WorkerFinish(w)
    \/ DispatcherOnly /\ StopStep

NextRegistry ==
    \/ RegistryOnly /\ \E paths \in PathLists, t \in ClientTypes :
                            RegisterClient(paths, t)
    \/ RegistryOnly /\ \E id \in Uuids : RemoveClient(id)
    \/ RegistryOnly /\ \E timeout \in 1..MaxTimeout : CleanupStaleClients(timeout)
    \/ RegistryOnly /\ \E id \in Uuids : UpdateHeartbeat(id)
    \/ RegistryOnly /\ Tick

\* TunnelService.Register under overlapping calls
NextRegister ==
    \/ TunnelOnly /\ \E t \in RegCalls, id \in {0, 101, 102},
                         path \in PathInputs \cup {<<>>} : TsRegisterCheck(t, id, path)
    \/ TunnelOnly /\ \E t \in RegCalls : TsRegisterLocked(t)

PortsOnly ==
    UNCHANGED <<dvars, panicked, rvars, tvars, cvars, fvars, kvars, pvars, svars,
                mainpc, poolvars, listvars>>

\* the TCPManager's port inventory and listeners under any order of calls,
\* beside another process that binds and releases ports
NextPorts ==
    \/ PortsOnly /\ \E startPort \in {0, FrontendStartPort} :
                        GetAvailablePortCall(startPort)
    \/ PortsOnly /\ \E port \in Range(portInventory) : StartOrReuseListenerCall(port)
    \/ PortsOnly /\ \E port \in OsPorts : OsBind(port)
    \/ PortsOnly /\ \E port \in OsPorts : OsRelease(port)

\* the Registry as main runs it: registrations, heartbeats, removals, the
\* clock and the heartbeat monitor; nothing in the program calls
\* CleanupStaleClients
NextMonitor ==
    \/ RegistryOnly /\ \E p \in PathInputs, t \in ClientTypes :
                            RegisterClient(<<p>>, t)
    \/ RegistryOnly /\ \E id \in Uuids : RemoveClient(id)
    \/ RegistryOnly /\ \E id \in Uuids : UpdateHeartbeat(id)
    \/ RegistryOnly /\ Tick
    \/ RegistryOnly /\ StartHeartbeatMonitor

\* the connection counters of registered clients under any order of calls
NextCounters ==
    \/ RegistryOnly /\ \E p \in PathInputs, t \in ClientTypes :
                            RegisterClient(<<p>>, t)
    \/ RegistryOnly /\ \E id \in Uuids : RemoveClient(id)
    \/ RegistryOnly /\ \E id \in Uuids : UpdateHeartbeat(id)
    \/ RegistryOnly /\ Tick
    \/ RegistryOnly /\ \E id \in Uuids : IncrementCall(id)
    \/ RegistryOnly /\ \E id \in Uuids : DecrementCall(id)

\* the response waiters, with the one registration that makes a client known
NextCorrelator ==
    \/ TunnelOnly /\ TsRegisterCheck(1, 101, <<"/", "a">>)
    \/ TunnelOnly /\ TsRegisterLocked(1)
    \/ CorrelatorOnly /\ \E c \in Callers, rid \in ReqIds : AwaitStore(c, rid, 101)
    \/ CorrelatorOnly /\ \E c \in Callers : AwaitSend(c)
    \/ CorrelatorOnly /\ \E c \in Callers : AwaitReceive(c)
    \/ CorrelatorOnly /\ \E c \in Callers : AwaitTimeout(c)
    \/ CorrelatorOnly /\ \E c \in Callers : AwaitCancel(c)
    \/ CorrelatorOnly /\ \E d \in Delivers, rid \in {0} \cup ReqIds,
                             ty \in StreamRequestTypes : DeliverLoad(d, rid, ty)
    \/ CorrelatorOnly /\ \E d \in Delivers : DeliverSend(d)

\* registrations over HTTP, the connections their listeners accept and the
\* Dispatcher that runs the connection jobs
NextRouter ==
    \/ DispatcherOnly /\ Start
    \/ DispatcherOnly /\ DispatchTakeJob
    \/ DispatcherOnly /\ DispatchGetWorker
    \/ DispatcherOnly /\ DispatchSend
    \/ DispatcherOnly /\ \E w \in WorkerIds : WorkerRegister(w)
    \/ \E w \in WorkerIds : ConnectionJobFinish(w)
    \/ \E f \in FrontCalls, id \in {0, 101}, proto \in ClientTypes :
            RegisterHandlerAllocate(f, id, proto)
    \/ \E f \in FrontCalls : StartOrReuseListener(f)
    \/ \E f \in FrontCalls : RegisterHandlerRegister(f, << <<"/", "a">> >>)
    \/ \E f \in FrontCalls : RegisterHandlerUpdate(f)
    \/ \E k \in Conns, port \in listeners : acceptConnections(k, port)
    \/ \E k \in Conns, ok \in BOOLEAN : HandleConnectionRead(k, ok)
    \/ \E k \in Conns : HandleConnectionFind(k)
    \/ \E k \in Conns : HandleConnectionSubmit(k)
    \/ \E k \in Conns : HandleConnectionClose(k)
    \/ \E k \in Conns : HandleConnectionDecrement(k)

(***************************************************************************)
(* main of the broker, from the shutdown signal on. m.connections is       *)
(* written nowhere in the program, so it is empty throughout.              *)
(***************************************************************************)
\* main has started the HTTP server and waits for the signal
InitMain == mainpc = "serving"

\* <-ctx.Done(): SIGINT, SIGTERM or SIGQUIT arrives. main has run
\* dispatcher.Start() long before.
MainSignal ==
    /\ Running
    /\ started
    /\ mainpc = "serving"
    /\ mainpc' = "shutdownHTTP"
    /\ UNCHANGED <<dvars, panicked, rvars, tvars, cvars, mvars, fvars, kvars,
                   pvars, svars, poolvars, listvars>>

\* httpServer.Shutdown(shutdownCtx). The server that serves is the one
\* http.ListenAndServe made inside StartServer; httpServer itself never
\* served, so Shutdown returns at once and stops nothing.
MainShutdownHTTP ==
    /\ Running
    /\ mainpc = "shutdownHTTP"
    /\ mainpc' = "closeAll"
    /\ UNCHANGED <<dvars, panicked, rvars, tvars, cvars, mvars, fvars, kvars,
                   pvars, svars, poolvars, listvars>>

\* tcpMgr.CloseAllConnections(), under m.mu: every listener of m.listeners
\* is closed, which ends its accept loop, and the map replaced by an empty
\* one
CloseAllConnections ==
    /\ Running
    /\ mainpc = "closeAll"
    /\ ~mmuStuck
    /\ listeners' = {}
    /\ acceptLoops' = <<>>
    /\ mainpc' = "stop"
    /\ UNCHANGED <<portInventory, mmuStuck, osBusy, allocPort, lret, lbound>>
    /\ UNCHANGED <<dvars, panicked, rvars, tvars, cvars, fvars, kvars, pvars,
                   svars, poolvars, listvars>>

\* dispatcher.Stop() as main calls it, one statement at a time; when it has
\* returned main goes on to wg.Wait()
MainStop ==
    /\ mainpc = "stop"
    /\ StopStep
    /\ mainpc' = IF spc' = "returned" THEN "wgWait" ELSE mainpc
    /\ UNCHANGED <<rvars, tvars, cvars, mvars, fvars, kvars, pvars, svars, poolvars, listvars>>

\* main from the signal on, beside the Dispatcher with one Job in flight
\* and the port calls of the registrations the HTTP server still serves
NextShutdown ==
    \/ DispatcherOnly /\ Start
    \/ DispatcherOnly /\ Submit(1)
    \/ DispatcherOnly /\ DispatchTakeJob
    \/ DispatcherOnly /\ DispatchStop
    \/ DispatcherOnly /\ DispatchGetWorker
    \/ DispatcherOnly /\ DispatchSend
    \/ DispatcherOnly /\ \E w \in WorkerIds : WorkerRegister(w)
    \/ DispatcherOnly /\ \E w \in WorkerIds : WorkerStop(w)
    \/ DispatcherOnly /\ \E w \in WorkerIds : WorkerFinish(w)
    \/ PortsOnly /\ GetAvailablePortCall(FrontendStartPort)
    \/ PortsOnly /\ \E port \in Range(portInventory) : StartOrReuseListenerCall(port)
    \/ MainSignal
    \/ MainShutdownHTTP
    \/ CloseAllConnections
    \/ MainStop

\* HTTP requests to ProxyHandler beside registrations (of one path, once
\* or repeated in the request) and removals, and the Dispatcher that runs
\* the proxy jobs
NextProxy ==
    \/ DispatcherOnly /\ Start
    \/ DispatcherOnly /\ DispatchTakeJob
    \/ DispatcherOnly /\ DispatchGetWorker
    \/ DispatcherOnly /\ DispatchSend
    \/ DispatcherOnly /\ \E w \in WorkerIds : WorkerRegister(w)
    \/ \E w \in WorkerIds : ProxyJobFinish(w)
    \/ RegistryOnly /\ \E p \in PathInputs, n \in 1..MaxPaths :
                            RegisterClient([i \in 1..n |-> p], ClientTypeHTTP)
    \/ RegistryOnly /\ \E id \in Uuids : RemoveClient(id)
    \/ \E q \in Proxies, path \in PathInputs : InProxyOrder(q) /\ ProxyHandler(q, path)
    \/ \E q \in Proxies : ProxyHandlerReturn(q)

\* overlapping calls of HTTPFrontend.RegisterHandler
NextFrontend ==
    \/ \E f \in FrontCalls, id \in {0, 101}, proto \in ClientTypes :
            RegisterHandlerAllocate(f, id, proto)
    \/ \E f \in FrontCalls : StartOrReuseListener(f)
    \/ \E f \in FrontCalls, p \in PathInputs : RegisterHandlerRegister(f, <<p>>)
    \/ \E f \in FrontCalls : RegisterHandlerUpdate(f)

Init ==
    /\ InitDispatcher
    /\ InitRegistry
    /\ InitTunnelService
    /\ InitCorrelator
    /\ InitTCPManager
    /\ InitFrontend
    /\ InitConnections
    /\ InitProxy
    /\ InitTunnels
    /\ InitMain
    /\ InitPool
    /\ InitListing

\* the Dispatcher with its workers, its submitters and one caller of Stop
SpecDispatcher == Init /\ [][NextDispatcher]_vars

\* the Registry under any sequence of its operations
SpecRegistry == Init /\ [][NextRegistry]_vars

\* the TunnelService's handleHTTPRequest and handleHTTPResponse calls
SpecCorrelator == Init /\ [][NextCorrelator]_vars

\* the Registry with its monitor; the ticker fires again and again and
\* time goes on
SpecMonitor ==
    /\ Init
    /\ [][NextMonitor]_vars
    /\ WF_vars(RegistryOnly /\ StartHeartbeatMonitor)
    /\ WF_vars(RegistryOnly /\ Tick)

\* registrations with the TunnelService
SpecRegister == Init /\ [][NextRegister]_vars

\* the TCPManager's ports
SpecPorts == Init /\ [][NextPorts]_vars

\* the Registry's connection counters
SpecCounters == Init /\ [][NextCounters]_vars

\* the TCP routing path: RegisterHandler, handleConnection and the workers
SpecRouter == Init /\ [][NextRouter]_vars

\* the HTTP proxy path: ProxyHandler, the Registry and the workers
SpecProxy == Init /\ [][NextProxy]_vars

\* registrations over HTTP that overlap
SpecFrontend == Init /\ [][NextFrontend]_vars

\* the tunnel server of cmd/server
SpecTunnel == Init /\ [][NextTunnel]_vars

\* a caller of ListClients beside the Registry's writers
SpecListing == Init /\ [][NextListing]_vars

\* the context-based Pool
SpecPool == Init /\ [][NextPool]_vars

\* the Dispatcher at work, Stop never called
NextRun ==
    \/ DispatcherOnly /\ Start
    \/ DispatcherOnly /\ \E j \in Jobs : InSubmitOrder(j) /\ Submit(j)
    \/ DispatcherOnly /\ DispatchTakeJob
    \/ DispatcherOnly /\ DispatchGetWorker
    \/ DispatcherOnly /\ DispatchSend
    \/ DispatcherOnly /\ \E w \in WorkerIds : WorkerRegister(w)
    \/ DispatcherOnly /\ \E w \in WorkerIds : WorkerFinish(w)

\* the Dispatcher at work: main calls Start, every Execute returns and
\* every goroutine that can take a step takes one
SpecRun ==
    /\ Init
    /\ [][NextRun]_vars
    /\ WF_vars(DispatcherOnly /\ Start)
    /\ WF_vars(DispatcherOnly /\ DispatchTakeJob)
    /\ WF_vars(DispatcherOnly /\ DispatchGetWorker)
    /\ WF_vars(DispatcherOnly /\ DispatchSend)
    /\ \A w \in WorkerIds : WF_vars(DispatcherOnly /\ WorkerRegister(w))
    /\ \A w \in WorkerIds : WF_vars(DispatcherOnly /\ WorkerFinish(w))

\* main's shutdown; every goroutine that can take a step takes one
SpecShutdown == Init /\ [][NextShutdown]_vars /\ WF_vars(NextShutdown)

(***************************************************************************)
(* The claims about the Dispatcher, under SpecDispatcher.                  *)
(***************************************************************************)
RunningJobs == {j \in Jobs : jobState[j] = "running"}

\* C1: once Dispatcher.Stop has been called (once, after Start) nothing
\* faults: no close of a closed channel, no send on a closed channel; and
\* when Stop has returned no worker is still inside a Job.
C1_StopReturnsNormally ==
    /\ (spc # "idle" => panicked = "none")
    /\ (spc = "returned" => \A w \in WorkerIds : wpc[w] # "execute")

\* C2: at every reachable state of a started Dispatcher at most maxWorkers
\* Jobs are inside Execute.
C2_AtMostMaxWorkersRunning ==
    started => Cardinality(RunningJobs) <= maxWorkers

\* every worker is inside a Job while another accepted Job waits
C2_AllWorkersBusy ==
    /\ started
    /\ Cardinality(RunningJobs) = maxWorkers
    /\ \E j \in Jobs : jobState[j] \in {"queued", "dispatching"}

\* C3: Submit never blocks (a call for a new job can always take its step),
\* and a call that returns has rejected the job and left the queue as it was
\* when the queue held queueSize jobs, and has appended the job to the queue
\* and accepted it otherwise.
C3_SubmitNonBlocking ==
    /\ [](\A j \in Jobs : (Running /\ jobState[j] = "new") => ENABLED Submit(j))
    /\ [][\A j \in Jobs :
            (jobState[j] = "new" /\ jobState'[j] # "new") =>
                IF Len(jobQueue) >= queueSize
                THEN jobState'[j] = "rejected" /\ jobQueue' = jobQueue
                ELSE jobState'[j] = "queued" /\ jobQueue' = Append(jobQueue, j)]_vars

\* a Submit was rejected by a full queue that still holds the accepted jobs
C3_RejectedOnFullQueue ==
    /\ Len(jobQueue) = queueSize
    /\ \E j \in Jobs : jobState[j] = "rejected"
    /\ \A i \in 1..Len(jobQueue) : jobState[jobQueue[i]] = "queued"

(***************************************************************************)
(* The claims about the Registry's path index, under SpecRegistry.         *)
(***************************************************************************)
\* the client IDs the index lists under path p
IndexedUnder(p) ==
    IF p \in DOMAIN pathToClientIDs THEN Range(pathToClientIDs[p]) ELSE {}

\* the normalized paths of a client record
OwnNormalizedPaths(rec) == {normalizePath(rec.Paths[i]) : i \in 1..Len(rec.Paths)}

\* C4: for every registered client, its ID is listed under each of its own
\* normalized paths and under no other path of the index.
C4_IndexMatchesOwnPaths ==
    \A k \in DOMAIN clients :
        \A p \in DOMAIN pathToClientIDs \cup OwnNormalizedPaths(clients[k]) :
            (clients[k].ID \in IndexedUnder(p)) <=> (p \in OwnNormalizedPaths(clients[k]))

\* C5: a step that removes a client (RemoveClient or the stale cleanup)
\* leaves its ID in no path list, and leaves no path mapped to an empty list.
C5_RemovalClearsIndex ==
    [][\A id \in Uuids :
         (id \in DOMAIN clients /\ id \notin DOMAIN clients') =>
             /\ \A p \in DOMAIN pathToClientIDs' : id \notin Range(pathToClientIDs'[p])
             /\ \A p \in DOMAIN pathToClientIDs' : pathToClientIDs'[p] # <<>>]_vars

\* C6: every client ID in a path list is the ID of a record of the client table.
C6_IndexRefersToRecords ==
    \A p \in DOMAIN pathToClientIDs :
        \A id \in Range(pathToClientIDs[p]) : id \in DOMAIN clients

(***************************************************************************)
(* The claims about the response waiters, under SpecCorrelator.            *)
(***************************************************************************)
\* every handleHTTPRequest call for request ID rid has returned, one of them
\* on the timeout
TimedOut(rid) ==
    /\ \E c \in Callers : creq[c] = rid /\ cpc[c] = "done" /\ cresult[c] = "timeout"
    /\ \A c \in Callers : creq[c] = rid => cpc[c] = "done"

\* C7: an await that takes the timeout returns Timeout with its request ID
\* no longer in the waiter map; a deliver for a request ID whose await has
\* timed out returns NotFound and changes neither the waiter map nor any
\* waiter or caller.
C7_TimeoutRemovesWaiter ==
    /\ [][\A c \in Callers :
            (cpc[c] = "waiting" /\ cresult'[c] = "timeout") =>
                (cpc'[c] = "done" /\ creq[c] \notin DOMAIN responseWaiters')]_vars
    /\ [][\A d \in Delivers :
            (hpc[d] = "idle" /\ hpc'[d] # "idle" /\ TimedOut(hreq'[d])) =>
                /\ hresult'[d] = "no waiter found"
                /\ hpc'[d] = "done"
                /\ UNCHANGED <<responseWaiters, waiterChan, cpc, cresult, creceived>>]_vars

\* an await has timed out and a deliver for its request ID got NotFound
C7_DeliverAfterTimeout ==
    \E c \in Callers, d \in Delivers :
        /\ cresult[c] = "timeout"
        /\ creq[c] \notin DOMAIN responseWaiters
        /\ hreq[d] = creq[c]
        /\ hresult[d] = "no waiter found"

\* C8: a deliver for a request ID with no stored waiter returns NotFound and
\* stores nothing, and no await, an earlier or a later one, ever holds or
\* receives the response of a deliver that returned NotFound.
C8_UnmatchedDeliverDiscarded ==
    /\ [][\A d \in Delivers :
            (hpc[d] = "idle" /\ hpc'[d] # "idle" /\ hreq'[d] # 0
                /\ hreq'[d] \notin DOMAIN responseWaiters) =>
                /\ hresult'[d] = "no waiter found"
                /\ hpc'[d] = "done"
                /\ UNCHANGED <<responseWaiters, waiterChan>>]_vars
    /\ [](\A d \in Delivers : hresult[d] = "no waiter found" =>
            \A c \in Callers :
                /\ creceived[c] # d
                /\ \A i \in 1..Len(waiterChan[c]) : waiterChan[c][i].from # d)

\* a deliver got NotFound, and an await made afterwards under the same
\* request ID is waiting on its stored, empty waiter
C8_LaterAwaitWaits ==
    \E c \in Callers, d \in Delivers :
        /\ hresult[d] = "no waiter found"
        /\ cpc[c] = "waiting"
        /\ creq[c] = hreq[d]
        /\ creq[c] \in DOMAIN responseWaiters
        /\ responseWaiters[creq[c]] = c
        /\ waiterChan[c] = <<>>

\* C9: an await for a request ID that has a stored waiter is refused as a
\* caller error and leaves the waiter map, and so the first waiter, as it was.
C9_DuplicateAwaitRefused ==
    [][\A c \in Callers :
         (cpc[c] = "idle" /\ cpc'[c] # "idle" /\ creq'[c] \in DOMAIN responseWaiters) =>
             (responseWaiters' = responseWaiters /\ cresult'[c] = "caller error")]_vars

(***************************************************************************)
(* The claims about routed connections, under SpecRouter.                  *)
(***************************************************************************)
\* the job of connection k has been accepted and has not finished executing
JobPending(k) == jobState[k] \in {"queued", "dispatching", "running"}

\* C10: while the Job of a routed connection has not finished executing, the
\* selected client's counter holds the connection's increment, the
\* connection is open and handleConnection has not run its decrement.
C10_CloseAndDecrementAfterJob ==
    \A k \in Conns : JobPending(k) =>
        /\ ~connClosed[k]
        /\ kpc[k] \notin {"decrement", "done"}
        /\ kclient[k] \in DOMAIN clients
        /\ clients[kclient[k]].ActiveTCPConnections >= 1

(***************************************************************************)
(* The claims about the connection counters, under SpecCounters.           *)
(***************************************************************************)
\* C11: the counter of every client in the table is at least 0 at every
\* state, and a DecrementTCPConnection of a counter that is 0 leaves it 0.
C11_CounterNeverNegative ==
    /\ [](\A id \in DOMAIN clients : clients[id].ActiveTCPConnections >= 0)
    /\ [][\A id \in DOMAIN clients \cap DOMAIN clients' :
            clients[id].ActiveTCPConnections = 0 =>
                clients'[id].ActiveTCPConnections \in {0, 1}]_vars

\* two clients are in the table, one with its counter at 0 and one with its
\* counter raised
C11_CountersMoved ==
    \E a, b \in DOMAIN clients :
        /\ clients[a].ActiveTCPConnections = 0
        /\ clients[b].ActiveTCPConnections >= 1

(***************************************************************************)
(* The claims about the heartbeat monitor, under SpecMonitor.              *)
(***************************************************************************)
\* the client's last heartbeat is more than d old
HeartbeatOlderThan(id, d) ==
    id \in DOMAIN clients /\ now - clients[id].LastHeartbeat > d

\* C12: a tick of the monitor leaves no client in the table whose last
\* heartbeat is older than the stale-cleanup timeout, so that such a client
\* is eventually absent from the table (or has sent a heartbeat again).
C12_StaleClientRemoved ==
    /\ [][StartHeartbeatMonitor =>
            \A id \in DOMAIN clients', timeout \in 1..MaxTimeout :
                now - clients'[id].LastHeartbeat <= timeout]_vars
    /\ \A id \in Uuids, timeout \in 1..MaxTimeout :
            HeartbeatOlderThan(id, timeout) ~>
                (id \notin DOMAIN clients \/ ~HeartbeatOlderThan(id, timeout))

\* C13: after a tick of the monitor every client whose last heartbeat is
\* more than 2 x interval old is inactive, and a tick makes no client
\* inactive whose last heartbeat is at most 2 x interval old.
C13_MonitorMarksExactlyOld ==
    [][StartHeartbeatMonitor =>
        \A id \in DOMAIN clients' :
            /\ now - clients'[id].LastHeartbeat > MonitorInterval * 2 =>
                    clients'[id].Status = "inactive"
            /\ (clients'[id].Status = "inactive" /\ clients[id].Status # "inactive") =>
                    now - clients[id].LastHeartbeat > MonitorInterval * 2]_vars

\* the monitor has made one client inactive and left active another whose
\* last heartbeat is exactly 2 x interval old
C13_OldInactiveYoungActive ==
    \E a, b \in DOMAIN clients :
        /\ clients[a].Status = "inactive"
        /\ now - clients[a].LastHeartbeat > MonitorInterval * 2
        /\ clients[b].Status = "active"
        /\ now - clients[b].LastHeartbeat = MonitorInterval * 2

\* C14: a record that is inactive stays inactive for as long as it is in the
\* client table.
C14_InactiveStaysInactive ==
    [][\A id \in DOMAIN clients \cap DOMAIN clients' :
          clients[id].Status = "inactive" => clients'[id].Status = "inactive"]_vars

(***************************************************************************)
(* The claims about the port inventory and the listeners, under SpecPorts. *)
(***************************************************************************)
\* C15: the port inventory never holds the same port twice.
C15_InventoryHasNoDuplicate ==
    \A i, j \in 1..Len(portInventory) :
        i # j => portInventory[i] # portInventory[j]

\* C16: the port inventory never holds more than maxPorts entries, and a
\* step taken while it is at its cap leaves it as it is, a GetAvailablePort
\* call returning its error.
C16_InventoryCapped ==
    /\ [](Len(portInventory) <= maxPorts)
    /\ [][Len(portInventory) >= maxPorts =>
            (portInventory' = portInventory /\ allocPort' \in {allocPort, 0})]_vars

\* the inventory is at its cap and the latest GetAvailablePort call failed
C16_RefusedAtCap ==
    Len(portInventory) = maxPorts /\ allocPort = 0

\* C17: no call of StartOrReuseListener keeps the manager's lock for ever:
\* when binding fails it still returns, with a listener or an error.
C17_ListenerCallReturns == ~mmuStuck

(***************************************************************************)
(* The claims about TunnelService.Register, under SpecRegister.            *)
(***************************************************************************)
\* C18: a Register call that comes to take a port when none is left ends
\* with an error: its next step returns the error, and the process never
\* faults on the empty port list.
C18_NoPortRegistrationFails ==
    /\ panicked # "index out of range"
    /\ \A t \in RegCalls :
          (regpc[t] = "checked" /\ Len(availablePorts) = 0) =>
              ENABLED (TsRegisterLocked(t) /\ regpc'[t] = "failed")

(***************************************************************************)
(* The claims about path lookup, under SpecRegistry.                       *)
(***************************************************************************)
RECURSIVE InOrder(_)
\* the IDs of a set as a sequence in the order they were handed out
InOrder(ids) ==
    IF ids = {} THEN <<>>
    ELSE LET first == CHOOSE id \in ids : \A other \in ids : id <= other
         IN <<first>> \o InOrder(ids \ {first})

\* the clients in the table that registered a path with this normal form
RegisteredFor(np) ==
    {id \in DOMAIN clients :
        \E i \in 1..Len(clients[id].Paths) : normalizePath(clients[id].Paths[i]) = np}

\* C19: a lookup of any spelling of a path returns the clients in the table
\* that registered that path, in the order of their registrations.
C19_LookupNormalizedInOrder ==
    \A p \in PathInputs :
        FindClientForPath(p) = InOrder(RegisteredFor(normalizePath(p)))

(***************************************************************************)
(* The claims about a burst of submissions, under SpecDispatcher.          *)
(***************************************************************************)
\* every Job has been handed to Submit, which returned
AllSubmitted == \A j \in Jobs : jobState[j] # "new"

Rejected == {j \in Jobs : jobState[j] = "rejected"}

Accepted == {j \in Jobs : jobState[j] \in {"queued", "dispatching", "running", "done"}}

\* dispatch() has taken no Job off the queue
NothingDispatched == \A j \in Jobs : jobState[j] \in {"new", "queued", "rejected"}

\* C20 as stated: once maxWorkers + queueSize + 1 Jobs have been submitted
\* to a started Dispatcher, exactly queueSize of them were accepted and all
\* the others Rejected.
C20_ExactlyQueueSizeAccepted ==
    (started /\ AllSubmitted /\ MaxJobs = maxWorkers + queueSize + 1) =>
        (Cardinality(Accepted) = queueSize
            /\ Cardinality(Rejected) = MaxJobs - queueSize)

\* C20, amended: once all the Jobs (at least queueSize of them) have been
\* submitted, at least queueSize were accepted, and exactly queueSize, all
\* the others being Rejected, when dispatch() took no Job off the queue in
\* between; a Rejected Job stays Rejected and is never in the queue, in
\* dispatch()'s hands or in a worker.
C20_BurstFillsQueue ==
    /\ [](AllSubmitted /\ MaxJobs >= queueSize =>
            /\ Cardinality(Accepted) >= queueSize
            /\ NothingDispatched =>
                    (Cardinality(Accepted) = queueSize
                        /\ Cardinality(Rejected) = MaxJobs - queueSize))
    /\ [](\A j \in Rejected :
            /\ j \notin Range(jobQueue)
            /\ djob # j
            /\ \A w \in WorkerIds : wjob[w] # j)
    /\ [][\A j \in Jobs : jobState[j] = "rejected" => jobState'[j] = "rejected"]_vars

\* the Dispatcher is started, every Job has been submitted with dispatch()
\* taking none of them, and the Jobs past the queue's capacity are Rejected
C20_BurstRejected ==
    /\ started
    /\ AllSubmitted
    /\ NothingDispatched
    /\ Cardinality(Rejected) = MaxJobs - queueSize
    /\ Cardinality(Rejected) >= 1

(***************************************************************************)
(* The claims about submissions to a stopped Dispatcher, under             *)
(* SpecDispatcher.                                                         *)
(***************************************************************************)
\* C21: once Dispatcher.Stop has closed d.stop, every Submit call returns
\* its error with the Job Rejected: the Job is not put into the queue and
\* the call does not panic.
C21_SubmitAfterStopRejected ==
    [][\A j \in Jobs : (dStop /\ Submit(j)) => jobState'[j] = "rejected"]_vars

(***************************************************************************)
(* The claims about the HTTP proxy path, under SpecProxy.                  *)
(***************************************************************************)
\* C22: when Submit has Rejected the job of a proxied HTTP request, the HTTP
\* client is answered 503 Service Unavailable, and when it has Rejected the
\* job of a routed TCP connection, the connection is closed once
\* handleConnection is through.
C22_RejectedIsVisible ==
    /\ \A q \in Proxies :
          (ppc[q] = "returned" /\ jobState[q] = "rejected") =>
              pstatus[q] = "503 Service Unavailable"
    /\ \A k \in Conns :
          (kpc[k] = "done" /\ jobState[k] = "rejected") => connClosed[k]

\* no ID listed under the path has a record in the client table
NoRecordFor(path) ==
    \A id \in IndexedUnder(path) : id \notin DOMAIN clients

\* C23: a call of ProxyHandler for a path under which no existing client
\* record is listed answers 404 Not Found.
C23_UnroutedPathNotFound ==
    [][\A q \in Proxies, path \in PathInputs :
          (NoRecordFor(path) /\ ProxyHandler(q, path)) =>
              pstatus'[q] = "404 Not Found"]_vars

(***************************************************************************)
(* The claims about registration, under SpecRegistry and SpecFrontend.     *)
(***************************************************************************)
\* C24: a RegisterClient call with an empty path list, or with no path that
\* is not empty, returns an error: it leaves the client table, the path
\* index and the port inventory as they were and does not block.
C24_EmptyRegistrationRefused ==
    [][\A paths \in PathLists, t \in ClientTypes :
          ((\A i \in 1..Len(paths) : paths[i] = <<>>) /\ RegisterClient(paths, t)) =>
              (UNCHANGED <<clients, pathToClientIDs, portInventory>> /\ ~rmuStuck')]_vars

\* C25: no two records of the client table hold the same TCPPort other than
\* 0, and the TCPPort of a record, once it is not 0, never changes while
\* the record is in the table.
C25_PortsOfRecordsDistinct ==
    /\ [](\A a, b \in DOMAIN clients :
            (a # b /\ clients[a].TCPPort # 0) =>
                clients[a].TCPPort # clients[b].TCPPort)
    /\ [][\A a \in DOMAIN clients \cap DOMAIN clients' :
            clients[a].TCPPort # 0 => clients'[a].TCPPort = clients[a].TCPPort]_vars

(***************************************************************************)
(* The claims about the tunnel server, under SpecTunnel.                   *)
(***************************************************************************)
\* the message has the form clientID|path: one separator, with something
\* other than white space on either side of it
WellFormed(msg) ==
    \E i \in 1..Len(msg) :
        /\ msg[i] = "|"
        /\ \A j \in 1..Len(msg) : msg[j] = "|" => j = i
        /\ \E j \in 1..(i - 1) : ~IsSpace(msg[j])
        /\ \E j \in (i + 1)..Len(msg) : ~IsSpace(msg[j])

\* the acknowledgments written to connection x
Acks(x) == Len(SelectSeq(twritten[x], LAMBDA w : w = "heartbeat-ack"))

\* C26: on every tunnel connection "registered" is written only after a
\* first message of the form clientID|path, it is the first thing written
\* and written once, every heartbeat line read has got its one
\* acknowledgment when the server is back at its read, and a first message
\* of another form ends with the connection closed, nothing written and
\* the client table as it was.
C26_RegisteredThenAcks ==
    /\ [](\A x \in Tunnels :
            /\ twritten[x] # <<>> =>
                  /\ WellFormed(tfirst[x])
                  /\ twritten[x][1] = "registered"
                  /\ \A i \in 2..Len(twritten[x]) : twritten[x][i] = "heartbeat-ack"
            /\ tpc[x] = "loop" => Acks(x) = tbeats[x]
            /\ (tpc[x] \notin {"none", "first"} /\ tfirst[x] # <<>>
                    /\ ~WellFormed(tfirst[x])) =>
                  (tpc[x] = "closed" /\ tclosed[x] /\ twritten[x] = <<>>))
    /\ [][\A x \in Tunnels :
            (tpc[x] = "first" /\ tpc'[x] # "first" /\ ~WellFormed(tfirst'[x])) =>
                sclients' = sclients]_vars

\* C27: the step in which handleClient leaves a registered client's
\* connection, a read or a write having failed, leaves no entry under the
\* client's ID in the client table, from which /clients is listed.
C27_DisconnectRemovesClient ==
    [][\A x \in Tunnels :
          (tpc'[x] = "closed" /\ tpc[x] # "closed" /\ Registers(tfirst'[x])) =>
              tid'[x] \notin DOMAIN sclients']_vars

\* a registered client's connection has ended with another client still in
\* the table
C27_OneGoneOneLeft ==
    \E x \in Tunnels :
        /\ tpc[x] = "closed"
        /\ twritten[x] # <<>>
        /\ tid[x] \notin DOMAIN sclients
        /\ sclients # <<>>

(***************************************************************************)
(* The claim about main's shutdown, under SpecShutdown.                    *)
(***************************************************************************)
\* C28: from the shutdown signal on nothing faults, and main goes through
\* its sequence to the end: the Dispatcher's Stop has returned, no listener
\* is left in m.listeners and main has returned.
C28_ShutdownCompletes ==
    /\ [](mainpc # "serving" => panicked = "none")
    /\ (mainpc = "shutdownHTTP") ~>
           (mainpc = "returned" /\ spc = "returned" /\ listeners = {})

(***************************************************************************)
(* The claims about the records' status and counters.                      *)
(***************************************************************************)
\* C29: a record that enters the client table has status connecting, and a
\* record's status goes from connecting to active only in a heartbeat of
\* that client.
C29_NewRecordConnecting ==
    [][\A id \in DOMAIN clients' :
          /\ id \notin DOMAIN clients => clients'[id].Status = "connecting"
          /\ (id \in DOMAIN clients /\ clients[id].Status = "connecting"
                  /\ clients'[id].Status = "active") => UpdateHeartbeat(id)]_vars

\* C30: UpdateHeartbeat, IncrementTCPConnection and DecrementTCPConnection
\* with an ID that has no record return the not-found error and leave the
\* client table and the path index as they were; with an ID that has a
\* record they return nil, keep the path index, the set of records and
\* every other client's record.
C30_OnlyThatRecord ==
    [][\A id \in Uuids :
          (UpdateHeartbeat(id) \/ IncrementCall(id) \/ DecrementCall(id)) =>
              /\ pathToClientIDs' = pathToClientIDs
              /\ DOMAIN clients' = DOMAIN clients
              /\ \A o \in DOMAIN clients : o # id => clients'[o] = clients[o]
              /\ IF id \in DOMAIN clients
                 THEN rerr' = "nil"
                 ELSE rerr' = "client not found" /\ clients' = clients]_vars

\* a call with an unknown ID has returned the not-found error beside a
\* record whose counter is above zero
C30_NotFoundBesideRecord ==
    /\ rerr = "client not found"
    /\ \E o \in DOMAIN clients : clients[o].ActiveTCPConnections > 0

(***************************************************************************)
(* The claim about StartOrReuseListener, under SpecPorts.                  *)
(***************************************************************************)
\* C31: a call of StartOrReuseListener for a port that has a listener
\* returns the listener of that port, binds nothing, starts no accept loop
\* and leaves m.listeners as it was; so every port that has a listener has
\* exactly one accept loop.
C31_ReuseIsIdempotent ==
    /\ [](\A port \in listeners :
              port \in DOMAIN acceptLoops /\ acceptLoops[port] = 1)
    /\ [][\A port \in listeners :
              StartOrReuseListenerCall(port) =>
                  /\ lret' = port
                  /\ ~lbound'
                  /\ UNCHANGED <<listeners, acceptLoops, osBusy, mmuStuck>>]_vars

\* a call has returned the listener of a port without binding it, while two
\* ports have listeners
C31_ListenerReused ==
    /\ lret \in listeners
    /\ ~lbound
    /\ Cardinality(listeners) = 2

(***************************************************************************)
(* The claim about the registration of TCP clients, under SpecRegistry.    *)
(***************************************************************************)
\* C32: no call leaves r.mu held for ever, and a RegisterClient step for a
\* client of the TCP kind returns with the record it made in the table.
C32_TcpRegistrationReturns ==
    /\ [](~rmuStuck)
    /\ [][\A paths \in PathLists :
              RegisterClient(paths, ClientTypeTCP) => nextUuid \in DOMAIN clients']_vars

(***************************************************************************)
(* The claim about the Dispatcher at work, under SpecRun.                  *)
(***************************************************************************)
\* the places that hold Job j: its occurrences in d.jobQueue, dispatch()
\* and the workers that execute it
Holders(j) ==
    Len(SelectSeq(jobQueue, LAMBDA x : x = j))
        + (IF djob = j THEN 1 ELSE 0)
        + Cardinality({w \in WorkerIds : wpc[w] = "execute" /\ wjob[w] = j})

\* C33: with Stop never called, an accepted Job is in exactly one place
\* (the queue, dispatch() or one worker) until it is done and in none
\* afterwards, a Job that is done is never executed again, and every
\* accepted Job is done in the end.
C33_AcceptedJobRunsOnce ==
    /\ [](\A j \in Jobs :
              Holders(j) = IF jobState[j] \in {"queued", "dispatching", "running"}
                           THEN 1 ELSE 0)
    /\ [][\A j \in Jobs : jobState[j] = "done" => jobState'[j] = "done"]_vars
    /\ \A j \in Jobs : (jobState[j] = "queued") ~> (jobState[j] = "done")

\* every Job but the rejected ones is done, and one was rejected on a full queue
C33_AllDoneOneRejected ==
    /\ \E j \in Jobs : jobState[j] = "rejected"
    /\ \A j \in Jobs : jobState[j] \in {"done", "rejected"}
    /\ Cardinality({j \in Jobs : jobState[j] = "done"}) >= queueSize + maxWorkers

(***************************************************************************)
(* The claim about the context-based Pool, under SpecPool.                 *)
(***************************************************************************)
\* C34: a worker of the Pool that is at its select has its channel in
\* p.workerPool or in dispatch's hands on the way to it, and dispatch never
\* drops a Job it took from the queue.
C34_IdleWorkerInPool ==
    /\ \A w \in PoolWorkers :
           poolWpc[w] \in {"toSelect", "select"} =>
               (w \in Range(poolWorkerPool) \/ poolDworker = w)
    /\ \A j \in PoolJobs : poolJobState[j] # "dropped"

(***************************************************************************)
(* The claim about a deliver that races with the end of the await.         *)
(***************************************************************************)
\* C35: no handleHTTPResponse call returns success for a response that
\* lies in the channel of a handleHTTPRequest call that has ended by its
\* timeout or its cancellation: such a response is received by nobody.
C35_SuccessMeansReceived ==
    \A d \in Delivers, c \in Callers :
        (hresult[d] = "success" /\ cresult[c] \in {"timeout", "cancelled"}) =>
            \A i \in 1..Len(waiterChan[c]) : waiterChan[c][i].from # d

(***************************************************************************)
(* The claim about the keys of the client table, under SpecFrontend.       *)
(***************************************************************************)
\* C36: every entry of r.clients is keyed by the ID its record holds.
C36_KeyedByOwnID == \A k \in DOMAIN clients : clients[k].ID = k

(***************************************************************************)
(* The claim about the connection counters, under SpecRouter.              *)
(***************************************************************************)
\* the connections admitted for the record under key that have not finished
Admitted(key) ==
    {k \in Conns : kclient[k] = key /\ kpc[k] \in {"submit", "close", "decrement"}}

\* C37: the counter of every record equals the number of its admitted,
\* unfinished connections, and the deferred decrement of a connection that
\* was admitted for no client leaves every counter as it was.
C37_CounterCountsAdmitted ==
    /\ [](\A key \in DOMAIN clients :
              clients[key].ActiveTCPConnections = Cardinality(Admitted(key)))
    /\ [][\A k \in Conns :
              (kpc[k] = "decrement" /\ kpc'[k] = "done" /\ kclient[k] = 0) =>
                  clients' = clients]_vars

(***************************************************************************)
(* The claim about the response of an accepted proxy Job, under SpecProxy. *)
(***************************************************************************)
\* C38: when ProxyHandler has returned for a request whose Job the
\* Dispatcher accepted, the Job is done and the response of the request is
\* the one the Job wrote.
C38_JobAnswersBeforeReturn ==
    \A q \in Proxies :
        (ppc[q] = "returned" /\ jobState[q] \notin {"new", "rejected"}) =>
            (jobState[q] = "done" /\ pstatus[q] = "501 Not Implemented")

(***************************************************************************)
(* The claim about a client ID registered again, under SpecTunnel.         *)
(***************************************************************************)
\* C39: the step in which handleClient leaves the loop of connection x
\* takes nothing from a connection y that registered the same client ID
\* after x, holds the entry of that ID and is in its loop: the entry stays
\* and y stays open.
C39_NewerRegistrationStays ==
    [][\A x, y \in Tunnels :
          (/\ x # y
           /\ tpc[x] = "loop" /\ tpc'[x] = "closed"
           /\ tpc[y] = "loop" /\ ~tclosed[y] /\ tid[y] = tid[x]
           /\ tid[y] \in DOMAIN sclients /\ sclients[tid[y]].conn = y) =>
              /\ tid[y] \in DOMAIN sclients'
              /\ sclients'[tid[y]].conn = y
              /\ ~tclosed'[y]]_vars

(***************************************************************************)
(* The claim about ListClients, under SpecListing.                         *)
(***************************************************************************)
\* C40: what a caller of ListClients holds stays the table as it was when
\* ListClients returned, whatever is registered or removed afterwards, and
\* r.clients is never written while a caller iterates over its listing.
C40_ListingIsSnapshot ==
    /\ lpc = "iterating" => ListClients = lsnap
    /\ lpc = "done" => lread = lsnap
    /\ ~lrace

====
